---- MODULE Spec2Model ----
(***************************************************************************)
(* Model of the three-pages API core: the multi-source book aggregator     *)
(* (services/books/aggregator.rs, driven by api/handlers/search.rs) and    *)
(* the hierarchical summarizer (services/huggingface/summarizer.rs and     *)
(* client.rs, driven by api/handlers/summary.rs).                          *)
(*                                                                         *)
(* Strings of the program whose characters matter are sequences of         *)
(* one-character strings; Option<T> is <<>> (None) or <<x>> (Some(x)).     *)
(***************************************************************************)
EXTENDS Integers, Sequences, FiniteSets, TLC

(***************************************************************************)
(* Generic helpers                                                         *)
(***************************************************************************)
None == <<>>

Some(x) == <<x>>

IsSome(o) == o # <<>>

Range(s) == {s[i] : i \in DOMAIN s}

Min(a, b) == IF a <= b THEN a ELSE b

Max(a, b) == IF a >= b THEN a ELSE b

RECURSIVE Concat(_)
\* Vec::extend applied for every element of a sequence of sequences
Concat(ss) == IF ss = <<>> THEN <<>> ELSE Head(ss) \o Concat(Tail(ss))

\* Iterator::take(n)
Take(s, n) == SubSeq(s, 1, Min(n, Len(s)))

RECURSIVE SumSeq(_)
SumSeq(s) == IF s = <<>> THEN 0 ELSE Head(s) + SumSeq(Tail(s))

\* all orders in which the elements of a finite set can be enumerated
Orderings(S) ==
    {o \in [1..Cardinality(S) -> S] : \A i, j \in 1..Cardinality(S) : i # j => o[i] # o[j]}

(***************************************************************************)
(* Characters and &str operations                                          *)
(***************************************************************************)
\* char::to_lowercase on the characters the model uses
LowerChar(c) ==
    CASE c = "D" -> "d"
      [] c = "E" -> "e"
      [] c = "F" -> "f"
      [] c = "H" -> "h"
      [] c = "J" -> "j"
      [] c = "A" -> "a"
      [] OTHER -> c

\* str::to_lowercase
ToLower(s) == [i \in DOMAIN s |-> LowerChar(s[i])]

\* char::is_alphanumeric on the characters the model uses
IsAlphanumeric(c) ==
    c \in {"D", "E", "F", "H", "J", "A", "d", "e", "f", "h", "j", "a", "u", "n", "m", "2", "t", "o", "r"}

\* char::is_whitespace on the characters the model uses
IsWhitespace(c) == c \in {" "}

RECURSIVE TrimStart(_)
TrimStart(s) ==
    IF s # <<>> /\ IsWhitespace(Head(s)) THEN TrimStart(Tail(s)) ELSE s

RECURSIVE TrimEnd(_)
TrimEnd(s) ==
    IF s # <<>> /\ IsWhitespace(s[Len(s)]) THEN TrimEnd(SubSeq(s, 1, Len(s) - 1)) ELSE s

\* str::trim
Trim(s) == TrimEnd(TrimStart(s))

RECURSIVE FilterChars(_, _)
\* keeps the characters of s that are in keepSet (chars().filter / replace with "")
FilterChars(s, keepSet) ==
    IF s = <<>> THEN <<>>
    ELSE IF Head(s) \in keepSet
         THEN <<Head(s)>> \o FilterChars(Tail(s), keepSet)
         ELSE FilterChars(Tail(s), keepSet)

\* the characters the model's strings are written in
Alphabet ==
    {"D", "E", "F", "H", "J", "A", "d", "e", "f", "h", "j", "a", "u", "n", "m", "2", "t", "o", "r",
     " ", "-", "_", ":", ".", ",", ";", "(", ")", "[", "]", "!"}

\* str::starts_with
StartsWith(s, p) == Len(p) <= Len(s) /\ SubSeq(s, 1, Len(p)) = p

\* str::contains (substring search)
Contains(s, p) ==
    \E i \in 1..(Len(s) + 1) : i + Len(p) - 1 <= Len(s) /\ SubSeq(s, i, i + Len(p) - 1) = p

RECURSIVE JoinStr(_, _)
\* [String]::join(sep)
JoinStr(ss, sep) ==
    IF ss = <<>> THEN <<>>
    ELSE IF Len(ss) = 1 THEN Head(ss)
    ELSE Head(ss) \o sep \o JoinStr(Tail(ss), sep)

(***************************************************************************)
(* f32 arithmetic.  A non-negative f32 is held as an integer count of      *)
(* units (2^-27 for completeness, 2^-25 for relevance); an f32 keeps 24    *)
(* significant bits, so a sum is rounded to the nearest multiple of its    *)
(* ulp, ties to even.                                                      *)
(***************************************************************************)
F32Ulp(x) ==
    CASE x < 16777216 -> 1
      [] x >= 16777216 /\ x < 33554432 -> 2
      [] x >= 33554432 /\ x < 67108864 -> 4
      [] x >= 67108864 /\ x < 134217728 -> 8
      [] x >= 134217728 /\ x < 268435456 -> 16
      [] x >= 268435456 /\ x < 536870912 -> 32
      [] x >= 536870912 /\ x < 1073741824 -> 64
      [] OTHER -> 128

F32Round(x) ==
    LET u == F32Ulp(x)
        q == x \div u
        r == x % u
    IN  IF 2 * r > u \/ (2 * r = u /\ q % 2 = 1) THEN (q + 1) * u ELSE q * u

\* f32 += f32
F32Add(a, b) == F32Round(a + b)

(***************************************************************************)
(* Book model (models/book.rs) and the source adapters' conversions        *)
(***************************************************************************)
BookSourceTags == {"Google", "OpenLibrary", "Gutenberg"}

\* GoogleBooksService::convert_to_book: item -> Book
GoogleConvertToBook(item) ==
    [id |-> <<"google", ":", item.id>>,
     title |-> item.title,
     authors |-> item.authors,
     description |-> item.description,
     isbn |-> item.isbn,
     published_date |-> item.published_date,
     page_count |-> item.page_count,
     language |-> item.language,
     cover_url |-> item.thumbnail,
     source |-> "Google"]

\* a conversion that tags the book with another source than its id names
OpenLibraryConvertToBook_GoogleTag(doc) ==
    [id |-> <<"openlibrary", ":", doc.key>>,
     title |-> doc.title,
     authors |-> doc.author_name,
     description |-> IF doc.subject # <<>>
                     THEN Some(JoinStr(Take(doc.subject, 5), <<",", " ">>))
                     ELSE None,
     isbn |-> IF doc.isbn # <<>> THEN Some(Head(doc.isbn)) ELSE None,
     published_date |-> doc.first_publish_year,
     page_count |-> doc.number_of_pages_median,
     language |-> IF doc.language # <<>> THEN Some(Head(doc.language)) ELSE None,
     cover_url |-> doc.cover_i,
     source |-> "Google"]

\* OpenLibraryService::convert_to_book: doc -> Book
OpenLibraryConvertToBook(doc) ==
    [id |-> <<"openlibrary", ":", doc.key>>,
     title |-> doc.title,
     authors |-> doc.author_name,
     description |-> IF doc.subject # <<>>
                     THEN Some(JoinStr(Take(doc.subject, 5), <<",", " ">>))
                     ELSE None,
     isbn |-> IF doc.isbn # <<>> THEN Some(Head(doc.isbn)) ELSE None,
     published_date |-> doc.first_publish_year,
     page_count |-> doc.number_of_pages_median,
     language |-> IF doc.language # <<>> THEN Some(Head(doc.language)) ELSE None,
     cover_url |-> doc.cover_i,
     source |-> "OpenLibrary"]

\* GutenbergService::convert_to_book: book -> Book
GutenbergConvertToBook(book) ==
    [id |-> <<"gutenberg", ":", book.id>>,
     title |-> book.title,
     authors |-> book.authors,
     description |-> IF book.subjects # <<>>
                     THEN Some(JoinStr(book.subjects, <<";", " ">>))
                     ELSE None,
     isbn |-> None,
     published_date |-> None,
     page_count |-> None,
     language |-> IF book.languages # <<>> THEN Some(Head(book.languages)) ELSE None,
     cover_url |-> book.cover,
     source |-> "Gutenberg"]

(***************************************************************************)
(* Aggregator: dedup key, source priority, completeness, relevance         *)
(***************************************************************************)
\* BookAggregatorService::normalize_string
normalize_string(s) ==
    LET lowered == ToLower(s)
        trimmed == Trim(lowered)
        replaced == FilterChars(trimmed,
                       Alphabet \ {" ", "-", "_", ":", ".", ",", ";", "(", ")", "[", "]"})
    IN  FilterChars(replaced, {c \in Alphabet : IsAlphanumeric(c)})

\* BookAggregatorService::create_dedup_key
create_dedup_key(book) ==
    LET title == normalize_string(book.title)
        author == IF book.authors = <<>> THEN <<>> ELSE normalize_string(book.authors[1])
    IN  title \o <<"|">> \o author

\* BookAggregatorService::get_source_priority (lower number = higher priority)
get_source_priority(source) ==
    CASE source = "Gutenberg" -> 1
      [] source = "OpenLibrary" -> 2
      [] source = "Google" -> 3

RECURSIVE F32Sum(_, _)
\* `score += x` for every x of addends in turn, starting from acc; an addend the
\* code skips is 0 here, and x + 0.0 = x exactly
F32Sum(acc, addends) ==
    IF addends = <<>> THEN acc
    ELSE F32Sum(F32Add(acc, Head(addends)), Tail(addends))

\* BookAggregatorService::calculate_completeness_score, an f32 in units of 2^-27
\* (1.0, 1.0, 0.5, 0.3, 0.7, 0.2, 0.2, 0.1 as f32)
calculate_completeness_score(book) ==
    F32Sum(0, <<IF book.title # <<>> THEN 134217728 ELSE 0,
                IF book.authors # <<>> THEN 134217728 ELSE 0,
                IF IsSome(book.isbn) THEN 67108864 ELSE 0,
                IF IsSome(book.cover_url) THEN 40265320 ELSE 0,
                IF IsSome(book.description) THEN 93952408 ELSE 0,
                IF IsSome(book.published_date) THEN 26843546 ELSE 0,
                IF IsSome(book.language) THEN 26843546 ELSE 0,
                IF IsSome(book.page_count) THEN 13421773 ELSE 0>>)

RECURSIVE AuthorScores(_, _)
\* the addends of the `for author in &book.authors` loop, in units of 2^-25
\* (8.0, and 4.0 more on an exact match)
AuthorScores(authors, query_lower) ==
    IF authors = <<>> THEN <<>>
    ELSE <<IF Contains(ToLower(Head(authors)), query_lower) THEN 268435456 ELSE 0,
           IF Contains(ToLower(Head(authors)), query_lower) /\ ToLower(Head(authors)) = query_lower
           THEN 134217728 ELSE 0>>
         \o AuthorScores(Tail(authors), query_lower)

\* a title block without the bonus for a title equal to the query
TitleScores_NoExactBonus(title_lower, query_lower) ==
    IF Contains(title_lower, query_lower)
    THEN <<335544320, IF StartsWith(title_lower, query_lower) THEN 100663296 ELSE 0>>
    ELSE <<>>

\* the title block of calculate_relevance_score (10.0, 5.0, 3.0)
TitleScores(title_lower, query_lower) ==
    IF Contains(title_lower, query_lower)
    THEN <<335544320,
           IF title_lower = query_lower THEN 167772160 ELSE 0,
           IF StartsWith(title_lower, query_lower) THEN 100663296 ELSE 0>>
    ELSE <<>>

\* BookAggregatorService::calculate_relevance_score, an f32 in units of 2^-25
\* (description 2.0; source 3.0, 2.0, 1.0; quality 0.5, 0.5, 0.3 as f32)
calculate_relevance_score(book, query) ==
    F32Sum(0,
        TitleScores(ToLower(book.title), ToLower(query))
        \o AuthorScores(book.authors, ToLower(query))
        \o <<IF IsSome(book.description)
                /\ Contains(ToLower(book.description[1]), ToLower(query))
             THEN 67108864 ELSE 0,
             CASE book.source = "Gutenberg" -> 100663296
               [] book.source = "OpenLibrary" -> 67108864
               [] book.source = "Google" -> 33554432,
             IF IsSome(book.cover_url) THEN 16777216 ELSE 0,
             IF IsSome(book.description) THEN 16777216 ELSE 0,
             IF IsSome(book.isbn) THEN 10066330 ELSE 0>>)

\* slice::sort_by: a stable sort; less[i][j] is "cmp(s[i], s[j]) = Less".
\* Element j ends before element i when it compares less, or compares equal and
\* came first.
SortBy(s, less) ==
    LET pos == [i \in DOMAIN s |->
                   Cardinality({j \in DOMAIN s : less[j][i] \/ (~less[i][j] /\ j < i)}) + 1]
    IN  [k \in DOMAIN s |-> s[CHOOSE i \in DOMAIN s : pos[i] = k]]

\* a comparator that forgets the completeness tie-break and prefers the lower
\* source priority
GroupBefore_Reversed(a_priority, b_priority, a_completeness, b_completeness) ==
    a_priority > b_priority

\* the comparator of group.sort_by: is a Less than b?  Source priority first
\* (lower number first), then completeness, greater first
GroupBefore(a_priority, b_priority, a_completeness, b_completeness) ==
    IF a_priority # b_priority
    THEN a_priority < b_priority
    ELSE b_completeness < a_completeness

\* a comparator that puts the lower relevance first
RelevanceBefore_Ascending(a_relevance, b_relevance) == a_relevance < b_relevance

\* the comparator of deduplicated.sort_by: higher relevance comes first
RelevanceBefore(a_relevance, b_relevance) == b_relevance < a_relevance

\* group.sort_by(..) followed by group.into_iter().next()
BestOfGroup(group) ==
    LET pr == [i \in DOMAIN group |-> get_source_priority(group[i].source)]
        cs == [i \in DOMAIN group |-> calculate_completeness_score(group[i])]
        less == [i \in DOMAIN group |-> [j \in DOMAIN group |->
                    GroupBefore(pr[i], pr[j], cs[i], cs[j])]]
    IN  Head(SortBy(group, less))

\* the HashMap<String, Vec<Book>> built by the first loop: the key set, and each
\* key's group in push (input) order
DedupKeys(books) == {create_dedup_key(books[i]) : i \in DOMAIN books}

RECURSIVE GroupOf(_, _)
GroupOf(books, key) ==
    IF books = <<>> THEN <<>>
    ELSE IF create_dedup_key(Head(books)) = key
         THEN <<Head(books)>> \o GroupOf(Tail(books), key)
         ELSE GroupOf(Tail(books), key)

\* a deduplication that takes the second book pushed to each group, and so
\* nothing from a group of one
deduplicate_and_prioritize_SecondOfGroup(books, query, iter_order) ==
    LET multi == SelectSeq(iter_order, LAMBDA key : Len(GroupOf(books, key)) > 1)
        picked == [i \in DOMAIN multi |-> GroupOf(books, multi[i])[2]]
        rel == [i \in DOMAIN picked |-> calculate_relevance_score(picked[i], query)]
        less == [i \in DOMAIN picked |-> [j \in DOMAIN picked |->
                    RelevanceBefore(rel[i], rel[j])]]
    IN  SortBy(picked, less)

\* BookAggregatorService::deduplicate_and_prioritize; iter_order is the order in
\* which `for (_, mut group) in book_groups` visits the HashMap's keys, which the
\* HashMap's per-instance random hasher decides
deduplicate_and_prioritize(books, query, iter_order) ==
    LET picked == [i \in DOMAIN iter_order |-> BestOfGroup(GroupOf(books, iter_order[i]))]
        rel == [i \in DOMAIN picked |-> calculate_relevance_score(picked[i], query)]
        less == [i \in DOMAIN picked |-> [j \in DOMAIN picked |->
                    RelevanceBefore(rel[i], rel[j])]]
    IN  SortBy(picked, less)

(***************************************************************************)
(* The catalog providers' answers the model draws from                     *)
(***************************************************************************)
\* most items a provider's search response holds
MaxItems == 2

sDune == <<"D", "u", "n", "e">>

sdune == <<"d", "u", "n", "e">>

sDu_ne == <<"D", "u", "-", "n", "e">>

sEmma == <<"E", "m", "m", "a">>

sFH == <<"F", "H">>

sf_h == <<"f", ".", "h">>

sJA == <<"J", "A">>

GoogleItems ==
    {[id |-> "g1", title |-> sDune, authors |-> <<sFH>>,
      description |-> Some(<<"a", " ", "d", "u", "n", "e">>), isbn |-> Some("isbn1"),
      published_date |-> Some("1965"), page_count |-> Some(412),
      language |-> Some("en"), thumbnail |-> Some("thumb1")],
     [id |-> "g2", title |-> sdune, authors |-> <<sf_h>>,
      description |-> Some(<<"a">>), isbn |-> Some("isbn2"),
      published_date |-> Some("1984"), page_count |-> Some(500),
      language |-> Some("en"), thumbnail |-> Some("thumb2")],
     [id |-> "g3", title |-> sEmma, authors |-> <<sJA>>,
      description |-> Some(<<"a">>), isbn |-> Some("isbn3"),
      published_date |-> None, page_count |-> None,
      language |-> None, thumbnail |-> Some("thumb3")]}

OpenLibraryDocs ==
    {[key |-> "/works/OL1W", title |-> sDu_ne, author_name |-> <<sFH, sJA>>,
      subject |-> <<>>, isbn |-> <<"isbn1">>, first_publish_year |-> Some("1965"),
      number_of_pages_median |-> None, language |-> <<"eng">>, cover_i |-> Some("cover1")],
     [key |-> "/works/OL2W", title |-> sdune, author_name |-> <<sf_h>>,
      subject |-> <<<<"a">>, <<"m">>>>, isbn |-> <<>>, first_publish_year |-> None,
      number_of_pages_median |-> None, language |-> <<>>, cover_i |-> None]}

GutenbergBooks ==
    {[id |-> "1", title |-> sdune, authors |-> <<sFH>>, subjects |-> <<>>,
      languages |-> <<"en">>, cover |-> None],
     [id |-> "2", title |-> sEmma, authors |-> <<>>, subjects |-> <<<<"e">>>>,
      languages |-> <<>>, cover |-> Some("cover2")]}

\* the search responses a provider may give: up to MaxItems distinct items
Responses(items) ==
    UNION {{r \in [1..n -> items] : \A i, j \in 1..n : i # j => r[i] # r[j]} : n \in 0..MaxItems}

Sources == <<"google", "openlibrary", "gutenberg">>

\* seconds a provider may take to answer
Latencies == {1, 40, 180}

\* reqwest::Client::builder().timeout(180 s): every request of the shared client
HTTP_CLIENT_TIMEOUT == 180

\* timeout(Duration::from_secs(30), aggregator.search(..)) in search_books
SEARCH_TIMEOUT == 30

\* GoogleBooksService::search, OpenLibraryService::search, GutenbergService::search
\* on an answered request: Ok(books)
AdapterSearch(source, items, per_source) ==
    CASE source = "google" -> [i \in DOMAIN items |-> GoogleConvertToBook(items[i])]
      [] source = "openlibrary" -> [i \in DOMAIN items |-> OpenLibraryConvertToBook(items[i])]
      [] source = "gutenberg" ->
            LET taken == Take(items, per_source)
            IN  [i \in DOMAIN taken |-> GutenbergConvertToBook(taken[i])]

Queries == {sDune, <<"f", "h">>}

Limits == {1, 10}

(***************************************************************************)
(* State of one SummarizerService::summarize call, made by generate_summary *)
(* (api/handlers/summary.rs) or directly on the service                    *)
(***************************************************************************)
VARIABLES
    caller,             \* "handler": generate_summary's timeout(120 s, ..); "direct": the service alone
    content,            \* summarize's content
    language,           \* summarize's language
    style,              \* summarize's style
    sm_pc,              \* "idle", "call", "await" (a backend call is in flight), "done", "dropped"
    cleaned_content,    \* summarize's cleaned_content
    chunks,             \* summarize's chunks
    chunk_i,            \* chunks of summarize_chunks' loop already handled
    summaries,          \* summarize_chunks' summaries
    combined_summaries, \* summarize's combined_summaries
    call,               \* the client call in flight
    calls,              \* every client call issued so far, in order
    site_results,       \* the value each awaited call expression of summarize took, in order
    backend_ok,         \* whether some client call has returned Ok
    sum_ret,            \* summarize's Result<String>
    gen_ret,            \* generate_summary's outcome after its summarize step
    elapsed             \* seconds since generate_summary started its timeout

sumVars ==
    <<caller, content, language, style, sm_pc, cleaned_content, chunks, chunk_i, summaries,
      combined_summaries, call, calls, site_results, backend_ok, sum_ret,
      gen_ret, elapsed>>

\* the inputs of a client call: the text, and the instruction put before it
NoInput ==
    [prompt |-> "none", language_name |-> "", style_instruction |-> "", target_words |-> 0,
     text |-> <<>>]

NoCall ==
    [site |-> "none", index |-> 0, fn |-> "none", model |-> "", input |-> NoInput,
     target_tokens |-> 0, min_tokens |-> 0, phase |-> "", attempt |-> 0]

NoResult == [tag |-> "none", text |-> <<>>]

Ok(text) == [tag |-> "Ok", text |-> text]

\* Err(AppError::ExternalApi(..))
Err == [tag |-> "Err", text |-> <<>>]

\* no summarize call exists
SumIdle ==
    /\ caller = "none"
    /\ content = <<>>
    /\ language = ""
    /\ style = ""
    /\ sm_pc = "idle"
    /\ cleaned_content = <<>>
    /\ chunks = <<>>
    /\ chunk_i = 0
    /\ summaries = <<>>
    /\ combined_summaries = <<>>
    /\ call = NoCall
    /\ calls = <<>>
    /\ site_results = <<>>
    /\ backend_ok = FALSE
    /\ sum_ret = NoResult
    /\ gen_ret = "none"
    /\ elapsed = 0

(***************************************************************************)
(* State of the text steps of one summarize call, taken without the        *)
(* backend (services/huggingface/summarizer.rs)                            *)
(***************************************************************************)
VARIABLES
    raw_text,       \* summarize's content
    text_style,     \* summarize's style
    text_pc,        \* "idle", "call", "short", "chunk", "chunked", "done"
    cleaned_text,   \* clean_project_gutenberg_text(content)
    text_chunks,    \* smart_chunk_by_paragraphs(&cleaned_content, 1500)
    extract         \* fallback_summary(&cleaned_content)

textVars == <<raw_text, text_style, text_pc, cleaned_text, text_chunks, extract>>

\* no summarize call exists
TextIdle ==
    /\ raw_text = <<>>
    /\ text_style = ""
    /\ text_pc = "idle"
    /\ cleaned_text = <<>>
    /\ text_chunks = <<>>
    /\ extract = <<>>

(***************************************************************************)
(* State of one HuggingFaceClient::summarize_bart call                     *)
(* (services/huggingface/client.rs)                                        *)
(***************************************************************************)
VARIABLES
    bart_call,      \* the call: its arguments and the loop's `attempt`
    bart_pc,        \* "idle", "await" (a request is in flight), "sleep", "done"
    bart_sent,      \* the answers to the HTTP requests sent so far, in order
    last_error,     \* summarize_bart_with_retry's last_error
    bart_ret        \* the call's Result<String>

bartVars == <<bart_call, bart_pc, bart_sent, last_error, bart_ret>>

\* no summarize_bart call exists
BartIdle ==
    /\ bart_call = NoCall
    /\ bart_pc = "idle"
    /\ bart_sent = <<>>
    /\ last_error = None
    /\ bart_ret = [tag |-> "none", text |-> <<>>, error |-> <<>>]

(***************************************************************************)
(* State of initialize_database (main.rs)                                  *)
(***************************************************************************)
VARIABLES
    retry_count,    \* initialize_database's retry_count
    db_pc,          \* "idle", "connect" (DatabaseService::new is awaited), "sleep", "done"
    db_results,     \* what each DatabaseService::new gave, in order: "Ok" or the error
    db_ret          \* initialize_database's anyhow::Result<DatabaseService>

dbVars == <<retry_count, db_pc, db_results, db_ret>>

\* initialize_database was not called
DbIdle ==
    /\ retry_count = 0
    /\ db_pc = "idle"
    /\ db_results = <<>>
    /\ db_ret = [tag |-> "none", error |-> ""]

(***************************************************************************)
(* State of one search_books request (api/handlers/search.rs)              *)
(***************************************************************************)
VARIABLES
    payload_query,  \* payload.query
    sb_pc,          \* "idle", "start", "nlp" (understand_query is awaited),
                    \* "search" (aggregator.search was called), "done"
    cache_result,   \* what timeout(100 ms, cache.get_json(..)) gave: "none" before the read
    nlp_result,     \* what timeout(5 s, understand_query(..)) gave: "none" before the call
    query_intent,   \* the local query_intent
    cache_set       \* TRUE once the spawned task has called cache.set_json

handlerVars == <<payload_query, sb_pc, cache_result, nlp_result, query_intent, cache_set>>

\* QueryIntent before it is built
NoIntent == [original_query |-> <<>>, search_query |-> <<>>]

\* search_books was not called
HandlerIdle ==
    /\ payload_query = <<>>
    /\ sb_pc = "idle"
    /\ cache_result = "none"
    /\ nlp_result = [tag |-> "none"]
    /\ query_intent = NoIntent
    /\ cache_set = FALSE

(***************************************************************************)
(* State of one generate_summary request (api/handlers/summary.rs)         *)
(***************************************************************************)
VARIABLES
    gs_req,         \* the request: book_id, payload.language, payload.style
    gs_pc,          \* "idle", "start", "lookup", "content", "summarize", "save", "done"
    gs_log,         \* the calls made so far, in order, each with its outcome
    gs_book,        \* book_detail, once get_book_details gave it
    gs_text,        \* truncated_text, the text handed to summarizer.summarize
    gs_ret,         \* generate_summary's Result: "none", "Ok" or the AppError variant
    gs_spawned      \* the cache task: "none", "spawned", "ran"

genVars == <<gs_req, gs_pc, gs_log, gs_book, gs_text, gs_ret, gs_spawned>>

\* generate_summary was not called
GenIdle ==
    /\ gs_req = <<>>
    /\ gs_pc = "idle"
    /\ gs_log = <<>>
    /\ gs_book = <<>>
    /\ gs_text = <<>>
    /\ gs_ret = "none"
    /\ gs_spawned = "none"

(***************************************************************************)
(* State of one TTSService::generate_audio call (services/huggingface/tts.rs) *)
(***************************************************************************)
VARIABLES
    tts_text,       \* generate_audio's text
    tts_language,   \* generate_audio's language
    endpoint,       \* how the TTS endpoint answers during this call (environment)
    tts_cleaned,    \* cleaned_text
    short_text,     \* short_text, once it is computed
    tts_pc,         \* "idle", "start", the strategy whose request is in flight ("primary",
                    \* "main", "backup", "short"), "shorten", "fallback", "done"
    tts_attempt,    \* generate_with_retry's attempt
    http_attempt,   \* tts_with_retry's attempt
    tts_requests,   \* the HTTP requests sent so far, in order, with their answers
    tts_ret         \* generate_audio's Result, or the panic that ended the call

ttsVars == <<tts_text, tts_language, endpoint, tts_cleaned, short_text, tts_pc, tts_attempt,
             http_attempt, tts_requests, tts_ret>>

\* generate_audio has not returned
NoAudio == [tag |-> "none", from |-> "", len |-> 0]

\* generate_audio was not called
TtsIdle ==
    /\ tts_text = <<>>
    /\ tts_language = ""
    /\ endpoint = <<>>
    /\ tts_cleaned = <<>>
    /\ short_text = <<>>
    /\ tts_pc = "idle"
    /\ tts_attempt = 0
    /\ http_attempt = 0
    /\ tts_requests = <<>>
    /\ tts_ret = NoAudio

(***************************************************************************)
(* State of concurrent get_audio requests (api/handlers/audio.rs) for one  *)
(* summary id and language, and of the audio_files table                   *)
(***************************************************************************)
VARIABLES
    summary_row,    \* what get_summary_by_id gives for the id: "Some", "Blank" (a summary
                    \* whose text is blank), "None"
    audio_files,    \* the rows of audio_files for the pair, oldest first
    au_pc,          \* each request: "idle", "start", "tts" (generate_audio is awaited),
                    \* "insert" (create_audio_file is awaited), "done"
    au_ret,         \* each request's outcome: "none", the row returned, or the error
    tts_calls       \* the requests that called generate_audio, in order

audioVars == <<summary_row, audio_files, au_pc, au_ret, tts_calls>>

\* the concurrent requests
AudioRequests == {1, 2}

\* no get_audio request was made
AudioIdle ==
    /\ summary_row = "None"
    /\ audio_files = <<>>
    /\ au_pc = [r \in AudioRequests |-> "idle"]
    /\ au_ret = [r \in AudioRequests |-> [tag |-> "none", row |-> 0]]
    /\ tts_calls = <<>>

(***************************************************************************)
(* State of one BookAggregatorService::get_book_details call               *)
(* (services/books/aggregator.rs)                                          *)
(***************************************************************************)
VARIABLES
    detail_id,      \* get_book_details' id
    dt_pc,          \* "idle", "call", "get_by_id", "get_ia_identifier", "done"
    adapter_calls,  \* every call of a source adapter made so far, in order
    adapter_results,\* what each adapter call returned, in order
    fetched,        \* the Option<Book> the adapter's get_by_id gave
    details_ret     \* get_book_details' Result<Option<BookDetail>>

detailVars == <<detail_id, dt_pc, adapter_calls, adapter_results, fetched, details_ret>>

\* get_book_details has not returned
NoDetailsResult == [tag |-> "none", msg |-> "", detail |-> None]

\* no get_book_details call exists
DetailsIdle ==
    /\ detail_id = <<>>
    /\ dt_pc = "idle"
    /\ adapter_calls = <<>>
    /\ adapter_results = <<>>
    /\ fetched = None
    /\ details_ret = NoDetailsResult

(***************************************************************************)
(* search_books (api/handlers/search.rs) driving BookAggregatorService::   *)
(* search (services/books/aggregator.rs)                                   *)
(***************************************************************************)
VARIABLES
    query,          \* query_intent.search_query handed to the aggregator
    limit,          \* payload.limit
    latency,        \* seconds each provider takes to answer this request (environment)
    arm,            \* tokio::join! arm of each source: "pending", "ok", "err", "dropped"
    returned,       \* the Vec<Book> inside each arm's Ok(..)
    search_clock,   \* seconds since timeout(30 s, aggregator.search(..)) was started
    all_books,      \* aggregator.search's all_books
    deduplicated,   \* aggregator.search's deduplicated (ranked) list
    search_ret,     \* aggregator.search's return: "none", "Ok"
    final_results,  \* the Vec<Book> inside Ok(..)
    handler_ret     \* search_books' outcome: "none", "Ok", "ServiceTimeout", "ServiceError"

searchVars ==
    <<query, limit, latency, arm, returned, search_clock, all_books, deduplicated,
      search_ret, final_results, handler_ret>>

SourceSet == Range(Sources)

\* no search request exists
SearchIdle ==
    /\ query = <<>>
    /\ limit = 0
    /\ latency = [x \in SourceSet |-> 0]
    /\ arm = [x \in SourceSet |-> "none"]
    /\ returned = [x \in SourceSet |-> <<>>]
    /\ search_clock = 0
    /\ all_books = <<>>
    /\ deduplicated = <<>>
    /\ search_ret = "none"
    /\ final_results = <<>>
    /\ handler_ret = "none"

ProviderItems(src) ==
    CASE src = "google" -> GoogleItems
      [] src = "openlibrary" -> OpenLibraryDocs
      [] src = "gutenberg" -> GutenbergBooks

\* let per_source = (limit / 3).max(5)
PerSource(lim) == Max(lim \div 3, 5)

\* The state when search_books has built the aggregator and starts
\* timeout(30 s, aggregator.search(query, limit)): the three adapter calls of
\* tokio::join! are in flight.
SearchInit ==
    /\ query \in Queries
    /\ limit \in Limits
    /\ latency \in [SourceSet -> Latencies]
    /\ arm = [x \in SourceSet |-> "pending"]
    /\ returned = [x \in SourceSet |-> <<>>]
    /\ search_clock = 0
    /\ all_books = <<>>
    /\ deduplicated = <<>>
    /\ search_ret = "none"
    /\ final_results = <<>>
    /\ handler_ret = "none"
    /\ SumIdle
    /\ DetailsIdle
    /\ TextIdle
    /\ BartIdle
    /\ DbIdle
    /\ HandlerIdle
    /\ GenIdle
    /\ TtsIdle
    /\ AudioIdle

\* One adapter's search future completes inside tokio::join!: Ok(books) on a 2xx
\* answer, Err on a transport error, a non-2xx status or the client's 180 s
\* timeout.  It completes only while the handler's 30 s timeout has not fired.
SourceSearchReturns(src) ==
    /\ handler_ret = "none"
    /\ arm[src] = "pending"
    /\ latency[src] < SEARCH_TIMEOUT
    /\ \A x \in SourceSet : arm[x] = "pending" => latency[src] <= latency[x]
    /\ \E ok \in BOOLEAN, items \in Responses(ProviderItems(src)) :
          /\ latency[src] >= HTTP_CLIENT_TIMEOUT => ~ok
          /\ ~ok => items = <<>>
          /\ arm' = [arm EXCEPT ![src] = IF ok THEN "ok" ELSE "err"]
          /\ returned' = [returned EXCEPT ![src] =
                             IF ok THEN AdapterSearch(src, items, PerSource(limit)) ELSE <<>>]
    /\ search_clock' = latency[src]
    /\ UNCHANGED <<query, limit, latency, all_books, deduplicated, search_ret,
                   final_results, handler_ret>>
    /\ UNCHANGED sumVars
    /\ UNCHANGED <<detailVars, textVars, bartVars, dbVars, handlerVars, genVars, ttsVars, audioVars>>

\* a collection that gives up at the first failed source
CollectAllBooks_StopAtError(arms, results) ==
    Concat([i \in DOMAIN Sources |->
               IF \A j \in 1..i : arms[Sources[j]] = "ok" THEN results[Sources[i]] ELSE <<>>])

\* lines 38-60 of search: `if let Ok(books) = .._result { all_books.extend(books) }`
\* for google, then openlibrary, then gutenberg
CollectAllBooks(arms, results) ==
    Concat([i \in DOMAIN Sources |->
               IF arms[Sources[i]] = "ok" THEN results[Sources[i]] ELSE <<>>])

\* a truncation that lets one book too many through
FinalResults_OneTooMany(ranked, lim) == Take(ranked, lim + 1)

\* `deduplicated.into_iter().take(limit).collect()`
FinalResults(ranked, lim) == Take(ranked, lim)

\* the variant of Result search returns once the join has completed
SearchReturn(arms) == "Ok"

\* All three arms have completed: the rest of aggregator.search runs to its
\* return, and search_books builds its response from it.
SearchCollect ==
    /\ handler_ret = "none"
    /\ \A x \in SourceSet : arm[x] \in {"ok", "err"}
    /\ LET books == CollectAllBooks(arm, returned)
       IN  /\ all_books' = books
           /\ \E iter_order \in Orderings(DedupKeys(books)) :
                 deduplicated' = deduplicate_and_prioritize(books, query, iter_order)
           /\ final_results' = FinalResults(deduplicated', limit)
    /\ search_ret' = SearchReturn(arm)
    /\ handler_ret' = IF search_ret' = "Ok" THEN "Ok" ELSE "ServiceError"
    /\ UNCHANGED <<query, limit, latency, arm, returned, search_clock>>
    /\ UNCHANGED sumVars
    /\ UNCHANGED <<detailVars, textVars, bartVars, dbVars, handlerVars, genVars, ttsVars, audioVars>>

\* timeout(30 s, ..) elapses while some arm is still pending: the search future
\* is dropped with every pending call in it, and search_books returns
\* ServiceTimeout("Book search timed out").
SearchTimeoutFires ==
    /\ handler_ret = "none"
    /\ \E x \in SourceSet : arm[x] = "pending"
    /\ \A x \in SourceSet : arm[x] = "pending" => latency[x] >= SEARCH_TIMEOUT
    /\ search_clock' = SEARCH_TIMEOUT
    /\ arm' = [x \in SourceSet |-> IF arm[x] = "pending" THEN "dropped" ELSE arm[x]]
    /\ handler_ret' = "ServiceTimeout"
    /\ UNCHANGED <<query, limit, latency, returned, all_books, deduplicated, search_ret,
                   final_results>>
    /\ UNCHANGED sumVars
    /\ UNCHANGED <<detailVars, textVars, bartVars, dbVars, handlerVars, genVars, ttsVars, audioVars>>

SearchNext ==
    \/ \E src \in SourceSet : SourceSearchReturns(src)
    \/ SearchCollect
    \/ SearchTimeoutFires

vars == <<searchVars, sumVars, detailVars, textVars, bartVars, dbVars, handlerVars, genVars, ttsVars, audioVars>>

SpecSearch == SearchInit /\ [][SearchNext]_vars

(***************************************************************************)
(* Text of the summarizer.  A string is the sequence of its lines          *)
(* (str::lines); a line is [kind, sents, tail, pad]:                       *)
(*   kind  "text", "blank" (the empty line), or a line of fixed wording:   *)
(*         "start"   *** START OF THE PROJECT GUTENBERG EBOOK ***          *)
(*         "end"     *** END OF THE PROJECT GUTENBERG EBOOK ***            *)
(*         "chapter" CHAPTER I                                             *)
(*         "credit"  Produced by Project Gutenberg                         *)
(*   sents the word counts of the sentences the line holds, each closed by *)
(*         one of . ! ?                                                    *)
(*   tail  the words after the line's last terminator                      *)
(*   pad   whether the line begins with whitespace                          *)
(* The words of "text" lines, and the words that follow a fixed wording on *)
(* its line, are four letters long.                                        *)
(***************************************************************************)
TextLine(sents, tail) == [kind |-> "text", sents |-> sents, tail |-> tail, pad |-> FALSE]

BlankLine == [kind |-> "blank", sents |-> <<>>, tail |-> 0, pad |-> FALSE]

\* whitespace-separated words of a line of fixed wording
KindWords(kind) ==
    CASE kind = "start" -> 8
      [] kind = "end" -> 8
      [] kind = "chapter" -> 2
      [] kind = "credit" -> 4
      [] OTHER -> 0

\* characters of a line of fixed wording
KindChars(kind) ==
    CASE kind = "start" -> 44
      [] kind = "end" -> 42
      [] kind = "chapter" -> 9
      [] kind = "credit" -> 29
      [] OTHER -> 0

FixedLine(kind) == [kind |-> kind, sents |-> <<>>, tail |-> KindWords(kind), pad |-> FALSE]

\* str::split_whitespace().count() of one line
LineWords(line) == SumSeq(line.sents) + line.tail

RECURSIVE WordCount(_)
\* str::split_whitespace().count()
WordCount(text) == IF text = <<>> THEN 0 ELSE LineWords(Head(text)) + WordCount(Tail(text))

\* line.trim()
TrimLine(line) == [line EXCEPT !.pad = FALSE]

\* the closure of clean_project_gutenberg_text's filter
KeptByCleaner(line) ==
    /\ LineWords(line) > 0                \* !trimmed.is_empty()
    /\ line.kind # "credit"               \* "Produced by", "Updated:", "gutenberg.org", "[Illustration"

\* SummarizerService::clean_project_gutenberg_text
clean_project_gutenberg_text(text) ==
    LET lines == text
        starts == {i \in DOMAIN lines :
                      \/ lines[i].kind = "start"                      \* contains(..)
                      \/ lines[i].kind = "chapter" /\ ~lines[i].pad}  \* starts_with(..)
        first == IF starts = {} THEN 0 ELSE CHOOSE i \in starts : \A j \in starts : i <= j
        \* 0-based start_idx: i + 1 after a START line, i at a chapter heading
        start_idx == IF starts = {} THEN 0
                     ELSE IF lines[first].kind = "start" THEN first ELSE first - 1
        ends == {i \in DOMAIN lines : lines[i].kind = "end"}
        \* 0-based end_idx: the last END line, or lines.len()
        end_idx == IF ends = {} THEN Len(lines)
                   ELSE (CHOOSE i \in ends : \A j \in ends : i >= j) - 1
    IN  IF start_idx < end_idx
        THEN LET kept == SelectSeq(SubSeq(lines, start_idx + 1, end_idx), KeptByCleaner)
             IN  [i \in DOMAIN kept |-> TrimLine(kept[i])]
        ELSE text

\* SummarizerService::clean_summary
clean_summary(summary) ==
    LET kept == SelectSeq(summary, LAMBDA line : LineWords(line) > 0)
    IN  [i \in DOMAIN kept |-> TrimLine(kept[i])]

\* The pieces of one line between terminators: [w, c, chap, pg, stop] are the
\* piece's words, its characters, whether it opens with CHAPTER, whether it
\* holds "Project Gutenberg", and whether a terminator closes it.
LinePieces(line) ==
    [i \in DOMAIN line.sents |->
        [w |-> line.sents[i], c |-> 5 * line.sents[i] - 1, chap |-> FALSE, pg |-> FALSE,
         stop |-> TRUE]]
    \o (IF line.tail = 0 THEN <<>>
        ELSE <<[w |-> line.tail,
                c |-> IF line.kind = "text" THEN 5 * line.tail - 1
                      ELSE KindChars(line.kind) + 5 * (line.tail - KindWords(line.kind)),
                chap |-> line.kind = "chapter",
                pg |-> line.kind = "credit",
                stop |-> FALSE]>>)

RECURSIVE TextPieces(_)
TextPieces(text) ==
    IF text = <<>> THEN <<>> ELSE LinePieces(Head(text)) \o TextPieces(Tail(text))

NoSegment == [w |-> 0, c |-> 0, chap |-> FALSE, pg |-> FALSE]

\* the segment cur extended by one more piece (whitespace between the two)
Extend(cur, piece) ==
    IF cur.w = 0
    THEN [w |-> piece.w, c |-> piece.c, chap |-> piece.chap, pg |-> piece.pg]
    ELSE [w |-> cur.w + piece.w, c |-> cur.c + 1 + piece.c, chap |-> cur.chap,
          pg |-> cur.pg \/ piece.pg]

RECURSIVE SplitPieces(_, _)
\* str::split(&['.', '!', '?']) over the pieces, segments without a word dropped
SplitPieces(pieces, cur) ==
    IF pieces = <<>> THEN (IF cur.w = 0 THEN <<>> ELSE <<cur>>)
    ELSE IF Head(pieces).stop
         THEN <<Extend(cur, Head(pieces))>> \o SplitPieces(Tail(pieces), NoSegment)
         ELSE SplitPieces(Tail(pieces), Extend(cur, Head(pieces)))

\* SummarizerService::split_into_sentences: the trimmed segments of the text,
\* each [w, c, chap, pg]
split_into_sentences(text) == SplitPieces(TextPieces(text), NoSegment)

\* sentences.join(" "): the terminators were consumed by the split
JoinSentences(sentence_chunk) ==
    <<TextLine(<<>>, SumSeq([i \in DOMAIN sentence_chunk |-> sentence_chunk[i].w]))>>

RECURSIVE JoinParagraphs(_)
\* current_chunk.join("\n\n")
JoinParagraphs(current_chunk) ==
    IF Len(current_chunk) = 1 THEN Head(current_chunk)
    ELSE Head(current_chunk) \o <<BlankLine>> \o JoinParagraphs(Tail(current_chunk))

RECURSIVE Paragraphs(_, _)
\* text.split("\n\n").filter(|p| !p.trim().is_empty()): the runs of lines
\* between empty lines
Paragraphs(text, run) ==
    IF text = <<>> THEN (IF WordCount(run) = 0 THEN <<>> ELSE <<run>>)
    ELSE IF Head(text).kind = "blank"
         THEN (IF WordCount(run) = 0 THEN <<>> ELSE <<run>>) \o Paragraphs(Tail(text), <<>>)
         ELSE Paragraphs(Tail(text), Append(run, Head(text)))

RECURSIVE ChunkWords(_, _)
\* words.chunks(target_words), each joined by " "
ChunkWords(words, target_words) ==
    IF words = 0 THEN <<>>
    ELSE <<<<TextLine(<<>>, Min(words, target_words))>>>>
         \o ChunkWords(words - Min(words, target_words), target_words)

\* SummarizerService::fallback_chunk_by_words
fallback_chunk_by_words(text, target_words) ==
    IF WordCount(text) <= target_words THEN <<text>>
    ELSE ChunkWords(WordCount(text), target_words)

RECURSIVE SentenceLoop(_, _, _, _)
\* the loop over the sentences of one large paragraph: the chunks it pushes
SentenceLoop(sentences, sentence_chunk, sent_count, target_words) ==
    IF sentences = <<>>
    THEN (IF sentence_chunk # <<>> THEN <<JoinSentences(sentence_chunk)>> ELSE <<>>)
    ELSE IF sent_count + Head(sentences).w > target_words /\ sentence_chunk # <<>>
         THEN <<JoinSentences(sentence_chunk)>>
              \o SentenceLoop(Tail(sentences), <<Head(sentences)>>, Head(sentences).w,
                              target_words)
         ELSE SentenceLoop(Tail(sentences), Append(sentence_chunk, Head(sentences)),
                           sent_count + Head(sentences).w, target_words)

RECURSIVE ParagraphLoop(_, _, _, _)
\* the loop over the paragraphs: the chunks it pushes
ParagraphLoop(paragraphs, current_chunk, word_count, target_words) ==
    IF paragraphs = <<>>
    THEN (IF current_chunk # <<>> THEN <<JoinParagraphs(current_chunk)>> ELSE <<>>)
    ELSE IF WordCount(Head(paragraphs)) > target_words
         THEN (IF current_chunk # <<>> THEN <<JoinParagraphs(current_chunk)>> ELSE <<>>)
              \o SentenceLoop(split_into_sentences(Head(paragraphs)), <<>>, 0, target_words)
              \o ParagraphLoop(Tail(paragraphs), <<>>, 0, target_words)
         ELSE IF word_count + WordCount(Head(paragraphs)) > target_words /\ current_chunk # <<>>
              THEN <<JoinParagraphs(current_chunk)>>
                   \o ParagraphLoop(Tail(paragraphs), <<Head(paragraphs)>>,
                                    WordCount(Head(paragraphs)), target_words)
              ELSE ParagraphLoop(Tail(paragraphs), Append(current_chunk, Head(paragraphs)),
                                 word_count + WordCount(Head(paragraphs)), target_words)

\* a chunker that fills its chunks up to twice the target
smart_chunk_by_paragraphs_DoubleTarget(text, target_words) ==
    IF Paragraphs(text, <<>>) = <<>>
    THEN fallback_chunk_by_words(text, 2 * target_words)
    ELSE ParagraphLoop(Paragraphs(text, <<>>), <<>>, 0, 2 * target_words)

\* SummarizerService::smart_chunk_by_paragraphs
smart_chunk_by_paragraphs(text, target_words) ==
    IF Paragraphs(text, <<>>) = <<>>
    THEN fallback_chunk_by_words(text, target_words)
    ELSE ParagraphLoop(Paragraphs(text, <<>>), <<>>, 0, target_words)

\* the fixed sentence fallback_summary returns when no sentence qualifies
CannedSummary == <<[kind |-> "canned", sents |-> <<18>>, tail |-> 0, pad |-> FALSE]>>

\* the closure of fallback_summary's filter
KeptByFallback(sentence) == sentence.c > 20 /\ ~sentence.pg /\ ~sentence.chap

\* SummarizerService::fallback_summary
fallback_summary(text) ==
    LET sentences == Take(SelectSeq(split_into_sentences(text), KeptByFallback), 15)
    IN  IF sentences = <<>> THEN CannedSummary
        ELSE <<TextLine([i \in DOMAIN sentences |-> sentences[i].w], 0)>>

\* SummarizerService::get_fallback_message
get_fallback_message(lang) ==
    CASE lang = "de" -> <<[kind |-> "no_content_de", sents |-> <<5>>, tail |-> 0, pad |-> FALSE]>>
      [] lang = "ta" -> <<[kind |-> "no_content_ta", sents |-> <<4>>, tail |-> 0, pad |-> FALSE]>>
      [] OTHER -> <<[kind |-> "no_content_en", sents |-> <<5>>, tail |-> 0, pad |-> FALSE]>>

(***************************************************************************)
(* SummarizerService::summarize and the client calls under it              *)
(***************************************************************************)
SUMMARIZATION_MODEL == "facebook/bart-large-cnn"

MULTILINGUAL_MODEL == "facebook/mbart-large-50-many-to-many-mmt"

\* `if word_count <= 2000` in summarize
SHORT_WORD_LIMIT == 2000

\* smart_chunk_by_paragraphs(&cleaned_content, 1500)
CHUNK_TARGET_WORDS == 1500

\* `let max_chunks = 4.min(chunks.len())` in summarize_chunks
MAX_CHUNKS == 4

\* summarize_bart -> summarize_bart_with_retry(.., 2)
BART_MAX_RETRIES == 2

\* inference -> inference_with_retry(.., 3)
INFERENCE_MAX_RETRIES == 3

\* .timeout(Duration::from_secs(90)) of a summarize_bart request
BART_REQUEST_TIMEOUT == 90

\* .timeout(Duration::from_secs(60)) of an inference request
INFERENCE_REQUEST_TIMEOUT == 60

\* Duration::from_millis(3000 * attempt) between summarize_bart attempts, in seconds
BART_RETRY_DELAY == 3

\* Duration::from_millis(1000 * attempt) between inference attempts, in seconds
INFERENCE_RETRY_DELAY == 1

\* timeout(Duration::from_secs(120), summarizer.summarize(..)) in generate_summary
SUMMARY_TIMEOUT == 120

\* `let max_chars = 50000` in generate_summary
MAX_CHARS == 50000

\* SummarizerService::get_language_name
get_language_name(code) ==
    CASE code = "de" -> "German"
      [] code = "ta" -> "Tamil"
      [] OTHER -> "English"

\* the text handed to the client as it is
PlainInput(text) == [NoInput EXCEPT !.text = text]

\* format!("Summarize the following text in {}:\n\n{}", language_name, text)
simple_prompt(text, lang) ==
    [prompt |-> "simple_prompt", language_name |-> get_language_name(lang),
     style_instruction |-> "", target_words |-> 0, text |-> text]

\* format!("Please summarize the following text in {} language:\n\n{}", language_name, text)
fallback_prompt(text, lang) ==
    [prompt |-> "fallback_prompt", language_name |-> get_language_name(lang),
     style_instruction |-> "", target_words |-> 0, text |-> text]

\* SummarizerService::create_language_prompt: language_name is the language
\* the two instructions are worded in, style_instruction the style whose
\* instruction is used
create_language_prompt(text, lang, sty, target_words) ==
    [prompt |-> "language_prompt",
     language_name |-> IF lang \in {"de", "ta"} THEN get_language_name(lang) ELSE "English",
     style_instruction |-> IF sty \in {"academic", "simple", "detailed"} THEN sty ELSE "concise",
     target_words |-> target_words,
     text |-> text]

\* client.summarize_bart(SUMMARIZATION_MODEL, input, max_length, min_length)
BartCall(site, index, input, max_length, min_length) ==
    [site |-> site, index |-> index, fn |-> "summarize_bart", model |-> SUMMARIZATION_MODEL, input |-> input,
     target_tokens |-> max_length, min_tokens |-> min_length, phase |-> "", attempt |-> 1]

\* client.text_generation(MULTILINGUAL_MODEL, prompt) inside multilingual_summarize,
\* which keeps target_tokens and min_tokens for its fallback
GenCall(site, index, input, target_tokens, min_tokens) ==
    [site |-> site, index |-> index, fn |-> "text_generation", model |-> MULTILINGUAL_MODEL, input |-> input,
     target_tokens |-> target_tokens, min_tokens |-> min_tokens, phase |-> "primary",
     attempt |-> 1]

\* SummarizerService::multilingual_summarize up to its first client call
multilingual_summarize(site, index, text, lang, sty, target_tokens, min_tokens) ==
    IF WordCount(text) < 100
    THEN BartCall(site, index, simple_prompt(text, lang), target_tokens, min_tokens)
    ELSE GenCall(site, index, create_language_prompt(text, lang, sty, target_tokens),
                 target_tokens, min_tokens)

\* a call site that asks for twice the length under style concise
SiteCall_ConciseLonger(site, index, text, lang, sty, target_tokens, min_tokens) ==
    IF lang = "en"
    THEN BartCall(site, index, PlainInput(text),
                  IF sty = "concise" THEN 2 * target_tokens ELSE target_tokens, min_tokens)
    ELSE multilingual_summarize(site, index, text, lang, sty,
                                IF sty = "concise" THEN 2 * target_tokens ELSE target_tokens,
                                min_tokens)

\* `if language == "en" { client.summarize_bart(..) } else { multilingual_summarize(..) }`
SiteCall(site, index, text, lang, sty, target_tokens, min_tokens) ==
    IF lang = "en"
    THEN BartCall(site, index, PlainInput(text), target_tokens, min_tokens)
    ELSE multilingual_summarize(site, index, text, lang, sty, target_tokens, min_tokens)

\* what the backend is sent by a call, with the call site (and the chunk's
\* number) it comes from: a text_generation request carries no max_length and
\* no min_length
Sent(c) ==
    [site |-> c.site, index |-> c.index, fn |-> c.fn, model |-> c.model, input |-> c.input,
     max_length |-> IF c.fn = "summarize_bart" THEN c.target_tokens ELSE 0,
     min_length |-> IF c.fn = "summarize_bart" THEN c.min_tokens ELSE 0]

\* The locals of the summarize call as one record f, so that each step of the
\* code is a function from f to f.
Frame ==
    [pc |-> sm_pc, cleaned_content |-> cleaned_content, chunks |-> chunks, chunk_i |-> chunk_i,
     summaries |-> summaries, combined_summaries |-> combined_summaries, call |-> call,
     calls |-> calls, site_results |-> site_results, backend_ok |-> backend_ok,
     ret |-> sum_ret]

\* a client call is made and awaited
Issue(f, c) == [f EXCEPT !.pc = "await", !.call = c, !.calls = Append(@, Sent(c))]

\* summarize returns
Return(f, result) == [f EXCEPT !.pc = "done", !.call = NoCall, !.ret = result]

\* a final step that returns the backend's error instead of falling back
FinalStep_PropagateErr(f, result) ==
    Return(f, result)

\* a final step whose fallback is computed over the cleaned full text
FinalStep_FallbackOverCleaned(f, result) ==
    Return(f, Ok(IF result.tag = "Ok" THEN result.text
                 ELSE fallback_summary(f.cleaned_content)))

\* summarize lines 66-84: the final call's result, or the extractive fallback
\* over the combined chunk summaries
FinalStep(f, result) ==
    Return(f, Ok(IF result.tag = "Ok" THEN result.text
                 ELSE fallback_summary(f.combined_summaries)))

\* a continuation whose fallback is computed over the text as it came in
AfterChunks_FallbackOverRaw(f) ==
    IF f.summaries = <<>>
    THEN Return(f, Ok(fallback_summary(content)))
    ELSE Issue([f EXCEPT !.combined_summaries = JoinParagraphs(f.summaries)],
               SiteCall("final", 0, JoinParagraphs(f.summaries), language, style, 1200, 300))

\* summarize lines 58-75, once summarize_chunks has returned Ok(summaries)
AfterChunks(f) ==
    IF f.summaries = <<>>
    THEN Return(f, Ok(fallback_summary(f.cleaned_content)))
    ELSE Issue([f EXCEPT !.combined_summaries = JoinParagraphs(f.summaries)],
               SiteCall("final", 0, JoinParagraphs(f.summaries), language, style, 1200, 300))

\* a cap that lets every chunk through
ChunkCap_Unlimited(n) == n

\* `let max_chunks = 4.min(chunks.len())`
ChunkCap(n) == Min(MAX_CHUNKS, n)

\* the head of summarize_chunks' loop: the next chunk's call, or the return
NextChunk(f) ==
    IF f.chunk_i < ChunkCap(Len(f.chunks))
    THEN Issue(f, SiteCall("chunk", f.chunk_i + 1, f.chunks[f.chunk_i + 1], language, style,
                           200, 50))
    ELSE AfterChunks(f)

\* a loop that gives up at the first failed chunk
ChunkStep_StopAtError(f, result) ==
    IF result.tag = "Ok"
    THEN NextChunk([f EXCEPT !.summaries = Append(@, clean_summary(result.text)),
                             !.chunk_i = @ + 1])
    ELSE AfterChunks([f EXCEPT !.chunk_i = @ + 1])

\* a loop that puts each new summary in front of the earlier ones
ChunkStep_Prepend(f, result) ==
    NextChunk([f EXCEPT !.summaries = IF result.tag = "Ok" /\ clean_summary(result.text) # <<>>
                                      THEN <<clean_summary(result.text)>> \o @
                                      ELSE @,
                        !.chunk_i = @ + 1])

\* summarize_chunks lines 111-124: `match summary_result`
ChunkStep(f, result) ==
    NextChunk([f EXCEPT !.summaries = IF result.tag = "Ok" /\ clean_summary(result.text) # <<>>
                                      THEN Append(@, clean_summary(result.text))
                                      ELSE @,
                        !.chunk_i = @ + 1])

\* the awaited expression of the call site has its value
Valued(f, result) ==
    [f EXCEPT !.site_results =
        Append(@, [site |-> f.call.site, index |-> f.call.index, result |-> result])]

\* the call site's expression has its value: the code after the await runs
SiteResult(f, result) ==
    CASE f.call.site = "short" -> Return(Valued(f, result), result)
      [] f.call.site = "chunk" -> ChunkStep(Valued(f, result), result)
      [] f.call.site = "final" -> FinalStep(Valued(f, result), result)

\* SummarizerService::fallback_multilingual_summary
fallback_multilingual_summary(f) ==
    Issue(f, BartCall(f.call.site, f.call.index, fallback_prompt(f.call.input.text, language),
                      f.call.target_tokens, f.call.min_tokens))

\* multilingual_summarize lines 160-181: `match text_generation(..)`
MultilingualResult(f, result) ==
    IF result.tag = "Ok" /\ WordCount(clean_summary(result.text)) > 10
    THEN SiteResult(f, Ok(clean_summary(result.text)))
    ELSE fallback_multilingual_summary(f)

\* The answers one HTTP request to the backend may get: status 0 is send()
\* returning Err (slow: by the request's own timeout), 200 carries words words
\* of summary_text or generated_text; the summary of chunk k is 40 + k words
\* long, so that the summaries of different chunks are different texts.
AttemptOutcomes(c) ==
    {[status |-> 200, words |-> w, slow |-> FALSE] : w \in {0, 3, 40 + c.index}}
    \cup {[status |-> st, words |-> 0, slow |-> FALSE] : st \in {401, 500}}
    \cup {[status |-> 0, words |-> 0, slow |-> b] : b \in BOOLEAN}

\* the body of a 200 answer
ResponseText(o) == IF o.words = 0 THEN <<>> ELSE <<TextLine(<<o.words>>, 0)>>

\* a retry loop that takes any 200 answer, whatever its body
Succeeds_AnyBody(c, o) == o.status = 200

\* the attempt returns Ok(..) from the retry loop
Succeeds(c, o) ==
    /\ o.status = 200
    /\ IF c.fn = "summarize_bart" THEN o.words >= 10 ELSE o.words > 0

\* `if status == 401 || status == 403 { return Err(..) }`
Aborts(o) == o.status \in {401, 403}

MaxRetries(c) == IF c.fn = "summarize_bart" THEN BART_MAX_RETRIES ELSE INFERENCE_MAX_RETRIES

\* the attempt fails and the loop sleeps before the next one
Retries(c, o) == ~Succeeds(c, o) /\ ~Aborts(o) /\ c.attempt < MaxRetries(c)

\* seconds from sending the request to the next request or to the call's return
AttemptSeconds(c, o) ==
    (IF o.slow
     THEN (IF c.fn = "summarize_bart" THEN BART_REQUEST_TIMEOUT ELSE INFERENCE_REQUEST_TIMEOUT)
     ELSE 0)
    + (IF Retries(c, o)
       THEN (IF c.fn = "summarize_bart" THEN BART_RETRY_DELAY ELSE INFERENCE_RETRY_DELAY)
            * c.attempt
       ELSE 0)

\* the client call in flight returns result
Returned(f, result) == [f EXCEPT !.backend_ok = @ \/ result.tag = "Ok"]

\* one pass of summarize_bart_with_retry's loop
BartAttemptStep(f, o) ==
    IF Succeeds(f.call, o)
    THEN SiteResult(Returned(f, Ok(ResponseText(o))), Ok(ResponseText(o)))
    ELSE IF Retries(f.call, o) THEN [f EXCEPT !.call.attempt = @ + 1]
    ELSE SiteResult(Returned(f, Err), Err)

\* one pass of inference_with_retry's loop under text_generation: a failed
\* first inference is followed by a second one with simpler parameters
InferenceAttemptStep(f, o) ==
    IF Succeeds(f.call, o)
    THEN MultilingualResult(Returned(f, Ok(ResponseText(o))), Ok(ResponseText(o)))
    ELSE IF Retries(f.call, o) THEN [f EXCEPT !.call.attempt = @ + 1]
    ELSE IF f.call.phase = "primary" THEN [f EXCEPT !.call.phase = "simple", !.call.attempt = 1]
    ELSE MultilingualResult(Returned(f, Err), Err)

\* a summarize without the check for empty content
SummarizeStep_NoEmptyCheck(f) ==
    LET g == [f EXCEPT !.cleaned_content = clean_project_gutenberg_text(content)]
    IN  IF WordCount(g.cleaned_content) <= SHORT_WORD_LIMIT
        THEN Issue(g, SiteCall("short", 0, g.cleaned_content, language, style, 800, 200))
        ELSE LET h == [g EXCEPT !.chunks = smart_chunk_by_paragraphs(g.cleaned_content,
                                                                     CHUNK_TARGET_WORDS)]
             IN  IF h.chunks = <<>>
                 THEN Return(h, Ok(fallback_summary(h.cleaned_content)))
                 ELSE NextChunk(h)

\* summarize lines 21-56, up to its first await
SummarizeStep(f) ==
    IF content = <<>> THEN Return(f, Ok(get_fallback_message(language)))
    ELSE LET g == [f EXCEPT !.cleaned_content = clean_project_gutenberg_text(content)]
         IN  IF WordCount(g.cleaned_content) <= SHORT_WORD_LIMIT
             THEN Issue(g, SiteCall("short", 0, g.cleaned_content, language, style, 800, 200))
             ELSE LET h == [g EXCEPT !.chunks = smart_chunk_by_paragraphs(g.cleaned_content,
                                                                          CHUNK_TARGET_WORDS)]
                  IN  IF h.chunks = <<>>
                      THEN Return(h, Ok(fallback_summary(h.cleaned_content)))
                      ELSE NextChunk(h)

\* generate_summary lines 155-165 on summarize's return
HandlerOutcome(result) ==
    IF result.tag = "Err" THEN "ServiceError(Failed to generate summary)"
    ELSE IF WordCount(result.text) = 0 THEN "ServiceError(Generated summary is empty)"
    ELSE "Summary"

\* the variables take the frame's values
Adopt(f) ==
    /\ sm_pc' = f.pc
    /\ cleaned_content' = f.cleaned_content
    /\ chunks' = f.chunks
    /\ chunk_i' = f.chunk_i
    /\ summaries' = f.summaries
    /\ combined_summaries' = f.combined_summaries
    /\ call' = f.call
    /\ calls' = f.calls
    /\ site_results' = f.site_results
    /\ backend_ok' = f.backend_ok
    /\ sum_ret' = f.ret
    /\ gen_ret' = IF caller = "handler" /\ f.pc = "done" THEN HandlerOutcome(f.ret) ELSE gen_ret

\* lines of a text at most
MaxLines == 2

\* "CHAPTER I" and 2098 more words on the same line, no terminator among them
ChapterRun == [kind |-> "chapter", sents |-> <<>>, tail |-> 2100, pad |-> FALSE]

\* the lines the texts are made of: an empty line, a START marker, a six-word
\* sentence, a line of three sentences of 1600, 1600 and 300 words, and a
\* chapter that runs on without a terminator
FlowLines ==
    {BlankLine, FixedLine("start"), TextLine(<<6>>, 0), TextLine(<<1600, 1600, 300>>, 0),
     ChapterRun}

Docs == UNION {[1..n -> FlowLines] : n \in 0..MaxLines}

\* characters of a line and its line break
LineChars(line) ==
    IF line.kind = "text" THEN 5 * LineWords(line) + Len(line.sents)
    ELSE KindChars(line.kind) + 5 * (line.tail - KindWords(line.kind)) + 1

\* str::len()
TextChars(text) == SumSeq([i \in DOMAIN text |-> LineChars(text[i])])

\* validators::SUPPORTED_LANGUAGES
SUPPORTED_LANGUAGES == {"en"}

\* the styles validators::validate_style accepts
SUPPORTED_STYLES == {"concise", "detailed", "academic", "simple"}

\* the languages of the texts; Tamil, which takes German's path through the
\* code but for its own message, meets the empty text only
Languages == {"en", "de"}

\* A summarize call is about to start.  generate_summary has validated the
\* language and the style, replaced blank content and cut the text to
\* MAX_CHARS characters plus "..."; a direct caller passes anything.
SumInit ==
    /\ caller \in {"handler", "direct"}
    /\ content \in Docs
    /\ language \in Languages \cup (IF content = <<>> THEN {"ta"} ELSE {})
    /\ style \in SUPPORTED_STYLES
    /\ caller = "handler" =>
          /\ language \in SUPPORTED_LANGUAGES
          /\ WordCount(content) > 0
          /\ TextChars(content) <= MAX_CHARS + 3
    /\ sm_pc = "call"
    /\ cleaned_content = <<>>
    /\ chunks = <<>>
    /\ chunk_i = 0
    /\ summaries = <<>>
    /\ combined_summaries = <<>>
    /\ call = NoCall
    /\ calls = <<>>
    /\ site_results = <<>>
    /\ backend_ok = FALSE
    /\ sum_ret = NoResult
    /\ gen_ret = "none"
    /\ elapsed = 0
    /\ SearchIdle
    /\ DetailsIdle
    /\ TextIdle
    /\ BartIdle
    /\ DbIdle
    /\ HandlerIdle
    /\ GenIdle
    /\ TtsIdle
    /\ AudioIdle

\* summarize is entered and runs to its first await or to its return
Summarize ==
    /\ sm_pc = "call"
    /\ Adopt(SummarizeStep(Frame))
    /\ UNCHANGED <<caller, content, language, style, elapsed>>
    /\ UNCHANGED searchVars
    /\ UNCHANGED <<detailVars, textVars, bartVars, dbVars, handlerVars, genVars, ttsVars, audioVars>>

\* the backend answers within the handler's deadline
InTime(o) == caller = "handler" => elapsed + AttemptSeconds(call, o) <= SUMMARY_TIMEOUT

\* generate_summary's clock; a direct call has none
Tick(o) == elapsed' = IF caller = "handler" THEN elapsed + AttemptSeconds(call, o) ELSE elapsed

\* One request of summarize_bart is answered; the code runs on to the next
\* request, the next client call, or summarize's return.
BartAttempt ==
    /\ sm_pc = "await"
    /\ call.fn = "summarize_bart"
    /\ \E o \in AttemptOutcomes(call) :
          /\ InTime(o)
          /\ Adopt(BartAttemptStep(Frame, o))
          /\ Tick(o)
    /\ UNCHANGED <<caller, content, language, style>>
    /\ UNCHANGED searchVars
    /\ UNCHANGED <<detailVars, textVars, bartVars, dbVars, handlerVars, genVars, ttsVars, audioVars>>

\* One request of text_generation's inference is answered.
InferenceAttempt ==
    /\ sm_pc = "await"
    /\ call.fn = "text_generation"
    /\ \E o \in AttemptOutcomes(call) :
          /\ InTime(o)
          /\ Adopt(InferenceAttemptStep(Frame, o))
          /\ Tick(o)
    /\ UNCHANGED <<caller, content, language, style>>
    /\ UNCHANGED searchVars
    /\ UNCHANGED <<detailVars, textVars, bartVars, dbVars, handlerVars, genVars, ttsVars, audioVars>>

\* generate_summary's timeout(120 s, ..) elapses while a request or a retry
\* sleep is pending: the summarize future is dropped and the handler returns
\* ServiceTimeout("Summary generation timed out").
SummaryTimeoutFires ==
    /\ caller = "handler"
    /\ sm_pc = "await"
    /\ \E o \in AttemptOutcomes(call) : ~InTime(o)
    /\ sm_pc' = "dropped"
    /\ gen_ret' = "ServiceTimeout(Summary generation timed out)"
    /\ elapsed' = SUMMARY_TIMEOUT
    /\ UNCHANGED <<caller, content, language, style, cleaned_content, chunks, chunk_i,
                   summaries, combined_summaries, call, calls, site_results, backend_ok,
                   sum_ret>>
    /\ UNCHANGED searchVars
    /\ UNCHANGED <<detailVars, textVars, bartVars, dbVars, handlerVars, genVars, ttsVars, audioVars>>

SumNext ==
    \/ Summarize
    \/ BartAttempt
    \/ InferenceAttempt
    \/ SummaryTimeoutFires

SpecSum == SumInit /\ [][SumNext]_vars

(***************************************************************************)
(* BookAggregatorService::get_book_details.  An id is a sequence of        *)
(* tokens: ":" is one, a digit or a sign is one, and so is a word without  *)
(* a colon in it.                                                          *)
(***************************************************************************)
\* the index of the n-th separator of s
NthIndex(s, sep, n) ==
    CHOOSE i \in DOMAIN s :
        s[i] = sep /\ Cardinality({j \in 1..(i - 1) : s[j] = sep}) = n - 1

\* str::splitn(2, sep): the part before the first separator and all the rest
SplitOn_AtFirst(s, sep) ==
    IF \A i \in DOMAIN s : s[i] # sep THEN <<s>>
    ELSE <<SubSeq(s, 1, NthIndex(s, sep, 1) - 1),
           SubSeq(s, NthIndex(s, sep, 1) + 1, Len(s))>>

\* str::split(sep).collect(): the parts between the separators, empty ones too
SplitOn(s, sep) ==
    [n \in 1..(Cardinality({i \in DOMAIN s : s[i] = sep}) + 1) |->
        SubSeq(s,
               IF n = 1 THEN 1 ELSE NthIndex(s, sep, n - 1) + 1,
               IF n = Cardinality({i \in DOMAIN s : s[i] = sep}) + 1
               THEN Len(s) ELSE NthIndex(s, sep, n) - 1)]

RECURSIVE RemoveAll(_, _)
\* str::replace(pattern, "")
RemoveAll(s, pattern) ==
    IF s = <<>> THEN <<>>
    ELSE IF StartsWith(s, pattern) THEN RemoveAll(SubSeq(s, Len(pattern) + 1, Len(s)), pattern)
    ELSE <<Head(s)>> \o RemoveAll(Tail(s), pattern)

DigitChars == <<"0", "1", "2", "3", "4", "5", "6", "7", "8", "9">>

\* char::to_digit(10) of a digit
DigitValue(c) == (CHOOSE d \in DOMAIN DigitChars : DigitChars[d] = c) - 1

\* i32::MAX and i32::MIN
I32_MAX == 2147483647

I32_MIN == (-I32_MAX) - 1

RECURSIVE CheckedDecimal(_, _, _)
\* the digit loop of i32::from_str: result = result * 10 + digit (for a
\* negative number: - digit) with checked arithmetic, None on overflow
CheckedDecimal(digits, result, negative) ==
    IF digits = <<>> THEN Some(result)
    ELSE IF negative
         THEN IF result < (I32_MIN + DigitValue(Head(digits)) + 9) \div 10 THEN None
              ELSE CheckedDecimal(Tail(digits), result * 10 - DigitValue(Head(digits)), negative)
         ELSE IF result > (I32_MAX - DigitValue(Head(digits))) \div 10 THEN None
              ELSE CheckedDecimal(Tail(digits), result * 10 + DigitValue(Head(digits)), negative)

\* str::parse::<i32>().ok(): an optional sign, then one digit or more, within
\* the range of i32
ParseI32(s) ==
    IF s = <<>> THEN None
    ELSE IF (IF Head(s) \in {"+", "-"} THEN Tail(s) ELSE s) = <<>> THEN None
    ELSE IF \E i \in DOMAIN s : s[i] \notin Range(DigitChars) /\ ~(i = 1 /\ s[i] \in {"+", "-"})
         THEN None
    ELSE CheckedDecimal(IF Head(s) \in {"+", "-"} THEN Tail(s) ELSE s, 0, Head(s) = "-")

\* Err(AppError::InvalidInput(msg))
InvalidInput(msg) == [tag |-> "InvalidInput", msg |-> msg, detail |-> None]

\* Err(AppError::ExternalApi(..)): the adapter met a status that is no success
ExternalApi == [tag |-> "ExternalApi", msg |-> "", detail |-> None]

\* Err(AppError::HttpRequest(..)): `?` on send()'s or json()'s reqwest::Error
HttpRequest == [tag |-> "HttpRequest", msg |-> "", detail |-> None]

\* the Result<Option<Book>> of get_by_id on an answer of the given status
GetByIdResult(status) ==
    CASE status = 404 -> "Ok(None)"
      [] status = 0 -> "Err(HttpRequest)"
      [] status = 200 -> "Ok(Some)"
      [] OTHER -> "Err(ExternalApi)"

\* the Result<Option<String>> of get_ia_identifier: Err on a reqwest::Error,
\* Ok(None) on a status that is no success or a doc without ia, else Ok(Some(..))
IaIdentifierResult(ok, ia) ==
    IF ~ok THEN "Err(HttpRequest)" ELSE IF IsSome(ia) THEN "Ok(Some)" ELSE "Ok(None)"

\* Ok(detail) of get_book_details
OkDetail(detail) == [tag |-> "Ok", msg |-> "", detail |-> detail]

\* a get_book_details that turns not-found into an error
GetByIdOutcome_NotFoundIsError(status) ==
    IF status = 0 THEN HttpRequest ELSE ExternalApi

\* a get_book_details that swallows the adapter's error
GetByIdOutcome_ErrorIsNone(status) == OkDetail(None)

\* what get_book_details returns when get_by_id gave no book: Ok(None) after
\* Ok(None), and through `?` the adapter's error
GetByIdOutcome(status) ==
    IF status = 404 THEN OkDetail(None)
    ELSE IF status = 0 THEN HttpRequest ELSE ExternalApi

\* a call of a source adapter: get_by_id(&str), GutenbergService::get_by_id(i32)
\* or get_ia_identifier(&str)
AdapterCall(adapter, fn, id, gid) ==
    [tag |-> "call", msg |-> "", adapter |-> adapter, fn |-> fn, id |-> id, gid |-> gid]

NoAdapterCall(msg) ==
    [tag |-> "InvalidInput", msg |-> msg, adapter |-> "", fn |-> "", id |-> <<>>, gid |-> 0]

\* get_book_details lines 79-95 up to the adapter's call: the call to make, or
\* the InvalidInput to return
Dispatch(id) ==
    IF Len(SplitOn(id, ":")) # 2 THEN NoAdapterCall("Invalid book ID format")
    ELSE CASE SplitOn(id, ":")[1] = <<"google">> ->
                 AdapterCall("google", "get_by_id", SplitOn(id, ":")[2], 0)
           [] SplitOn(id, ":")[1] = <<"openlibrary">> ->
                 AdapterCall("openlibrary", "get_by_id", SplitOn(id, ":")[2], 0)
           [] SplitOn(id, ":")[1] = <<"gutenberg">> ->
                 IF IsSome(ParseI32(SplitOn(id, ":")[2]))
                 THEN AdapterCall("gutenberg", "get_by_id", <<>>,
                                  ParseI32(SplitOn(id, ":")[2])[1])
                 ELSE NoAdapterCall("Invalid Gutenberg ID")
           [] OTHER -> NoAdapterCall("Unknown book source")

\* the adapter's convert_to_book on the item its get_by_id was answered with
ConvertToBook(adapter, item) ==
    CASE adapter = "google" -> GoogleConvertToBook(item)
      [] adapter = "openlibrary" -> OpenLibraryConvertToBook(item)
      [] adapter = "gutenberg" -> GutenbergConvertToBook(item)

\* an enrichment that gives no Gutenberg book its text
BookDetail_NoGutenbergUrl(book, ia) ==
    [book |-> book,
     content_url |->
        IF book.source = "OpenLibrary" /\ IsSome(ia)
        THEN Some(<<"https://archive.org/download/">> \o ia[1] \o <<"/">> \o ia[1]
                  \o <<".txt">>)
        ELSE None,
     gutenberg_id |-> IF book.source = "Gutenberg"
                      THEN ParseI32(RemoveAll(book.id, <<"gutenberg", ":">>))
                      ELSE None]

\* enrich_book_detail's BookDetail; ia is get_ia_identifier's Option<String>
BookDetail(book, ia) ==
    [book |-> book,
     content_url |->
        CASE book.source = "Gutenberg" ->
                Some(<<"https://www.gutenberg.org/files/">>
                     \o RemoveAll(book.id, <<"gutenberg", ":">>) \o <<"/">>
                     \o RemoveAll(book.id, <<"gutenberg", ":">>) \o <<"-0.txt">>)
          [] book.source = "OpenLibrary" ->
                IF IsSome(ia)
                THEN Some(<<"https://archive.org/download/">> \o ia[1] \o <<"/">> \o ia[1]
                          \o <<".txt">>)
                ELSE None
          [] OTHER -> None,
     gutenberg_id |-> IF book.source = "Gutenberg"
                      THEN ParseI32(RemoveAll(book.id, <<"gutenberg", ":">>))
                      ELSE None]

\* ':'-separated parts of an id at most
MaxParts == 3

\* what may stand where the source's name belongs
SourceParts ==
    {<<"google">>, <<"openlibrary">>, <<"gutenberg">>, <<"amazon">>, <<"badformat">>, <<>>}

\* what may stand where the source's own id belongs
IdParts ==
    {<<"g1">>, <<"/works/OL1W">>, <<"1">>, <<"0", "7">>, <<"-", "7">>, <<"+", "7">>,
     <<"7", "x">>, <<"-">>, <<>>, <<"2", "1", "4", "7", "4", "8", "3", "6", "4", "7">>,
     <<"2", "1", "4", "7", "4", "8", "3", "6", "4", "8">>}

\* what may follow a further separator
ExtraParts == {<<"1">>, <<>>}

\* the ids get_book_details is called with
DetailIds ==
    UNION {{JoinStr(parts, <<":">>) :
               parts \in {ps \in [1..n -> SourceParts \cup IdParts] :
                             /\ ps[1] \in SourceParts
                             /\ n >= 2 => ps[2] \in IdParts
                             /\ \A k \in 3..n : ps[k] \in ExtraParts}} :
           n \in 1..MaxParts}

\* the answers an adapter's HTTP request may get: status 0 is send() or json()
\* returning Err
DetailStatuses == {0, 200, 404, 500}

DetailsInit ==
    /\ detail_id \in DetailIds
    /\ dt_pc = "call"
    /\ adapter_calls = <<>>
    /\ adapter_results = <<>>
    /\ fetched = None
    /\ details_ret = NoDetailsResult
    /\ SearchIdle
    /\ SumIdle
    /\ TextIdle
    /\ BartIdle
    /\ DbIdle
    /\ HandlerIdle
    /\ GenIdle
    /\ TtsIdle
    /\ AudioIdle

\* get_book_details is entered and runs to the adapter's call or to its return
GetBookDetails ==
    /\ dt_pc = "call"
    /\ IF Dispatch(detail_id).tag = "InvalidInput"
       THEN /\ details_ret' = InvalidInput(Dispatch(detail_id).msg)
            /\ dt_pc' = "done"
            /\ UNCHANGED adapter_calls
       ELSE /\ adapter_calls' = Append(adapter_calls, Dispatch(detail_id))
            /\ dt_pc' = "get_by_id"
            /\ UNCHANGED details_ret
    /\ UNCHANGED <<detail_id, adapter_results, fetched>>
    /\ UNCHANGED <<searchVars, sumVars, textVars, bartVars, dbVars, handlerVars, genVars, ttsVars, audioVars>>

\* The adapter's get_by_id returns: Ok(None) on 404, Err on another failure,
\* Ok(Some(book)) otherwise, and get_book_details runs on to
\* enrich_book_detail's get_ia_identifier call or to its return.
GetByIdReturns ==
    /\ dt_pc = "get_by_id"
    /\ \E status \in DetailStatuses, item \in ProviderItems(adapter_calls[1].adapter) :
          /\ adapter_results' = Append(adapter_results, GetByIdResult(status))
          /\ IF status # 200
             THEN /\ details_ret' = GetByIdOutcome(status)
                  /\ dt_pc' = "done"
                  /\ UNCHANGED <<adapter_calls, fetched>>
             ELSE /\ fetched' = Some(ConvertToBook(adapter_calls[1].adapter, item))
                  /\ IF adapter_calls[1].adapter = "openlibrary"
                     THEN /\ adapter_calls' =
                                Append(adapter_calls,
                                       AdapterCall("openlibrary", "get_ia_identifier",
                                                   RemoveAll(fetched'[1].id, <<"openlibrary", ":">>),
                                                   0))
                          /\ dt_pc' = "get_ia_identifier"
                          /\ UNCHANGED details_ret
                     ELSE /\ details_ret' = OkDetail(Some(BookDetail(fetched'[1], None)))
                          /\ dt_pc' = "done"
                          /\ UNCHANGED adapter_calls
    /\ UNCHANGED detail_id
    /\ UNCHANGED <<searchVars, sumVars, textVars, bartVars, dbVars, handlerVars, genVars, ttsVars, audioVars>>

\* get_ia_identifier returns Err, Ok(None) or Ok(Some(ia_id)), and
\* get_book_details returns the detail.
IaIdentifierReturns ==
    /\ dt_pc = "get_ia_identifier"
    /\ \E ok \in BOOLEAN, ia \in {None, Some(<<"ia1">>)} :
          /\ adapter_results' = Append(adapter_results, IaIdentifierResult(ok, ia))
          /\ details_ret' = OkDetail(Some(BookDetail(fetched[1], IF ok THEN ia ELSE None)))
    /\ dt_pc' = "done"
    /\ UNCHANGED <<detail_id, adapter_calls, fetched>>
    /\ UNCHANGED <<searchVars, sumVars, textVars, bartVars, dbVars, handlerVars, genVars, ttsVars, audioVars>>

DetailsNext ==
    \/ GetBookDetails
    \/ GetByIdReturns
    \/ IaIdentifierReturns

SpecDetails == DetailsInit /\ [][DetailsNext]_vars

(***************************************************************************)
(* The text steps of summarize on its ChunkedPath when no chunk gets a     *)
(* summary: the text is cleaned, cut into chunks, and the extract of the   *)
(* cleaned text is the result.                                             *)
(***************************************************************************)
\* lines of a raw text at most
MaxTextLines == 3

\* an END marker and 1200 more words on the same line
EndRun == [kind |-> "end", sents |-> <<>>, tail |-> 1208, pad |-> FALSE]

\* sixteen sentences of 75 words on one line
SixteenSentences == TextLine([i \in 1..16 |-> 75], 0)

\* the lines the raw texts are made of: an empty line, an indented sentence of
\* six words, a "Produced by" line, a START marker, an END marker that runs
\* on, a chapter heading, a line of three sentences of 1600, 1600 and 300 words
\* and one of sixteen sentences
RawLines ==
    {BlankLine, [TextLine(<<6>>, 0) EXCEPT !.pad = TRUE], FixedLine("credit"),
     FixedLine("start"), EndRun, FixedLine("chapter"), TextLine(<<1600, 1600, 300>>, 0),
     SixteenSentences}

\* summarize's content once `content.is_empty()` was false
RawTexts == UNION {[1..n -> RawLines] : n \in 1..MaxTextLines}

TextInit ==
    /\ raw_text \in RawTexts
    /\ text_style \in SUPPORTED_STYLES
    /\ text_pc = "call"
    /\ cleaned_text = <<>>
    /\ text_chunks = <<>>
    /\ extract = <<>>
    /\ SearchIdle
    /\ SumIdle
    /\ DetailsIdle
    /\ BartIdle
    /\ DbIdle
    /\ HandlerIdle
    /\ GenIdle
    /\ TtsIdle
    /\ AudioIdle

\* summarize lines 26-33: the text is cleaned and its words are counted
CleanText ==
    /\ text_pc = "call"
    /\ cleaned_text' = clean_project_gutenberg_text(raw_text)
    /\ text_pc' = IF WordCount(cleaned_text') <= SHORT_WORD_LIMIT THEN "short" ELSE "chunk"
    /\ UNCHANGED <<raw_text, text_style, text_chunks, extract>>
    /\ UNCHANGED <<searchVars, sumVars, detailVars, bartVars, dbVars, handlerVars, genVars, ttsVars, audioVars>>

\* summarize line 46: the cleaned text is cut into chunks
ChunkText ==
    /\ text_pc = "chunk"
    /\ text_chunks' = smart_chunk_by_paragraphs(cleaned_text, CHUNK_TARGET_WORDS)
    /\ text_pc' = "chunked"
    /\ UNCHANGED <<raw_text, text_style, cleaned_text, extract>>
    /\ UNCHANGED <<searchVars, sumVars, detailVars, bartVars, dbVars, handlerVars, genVars, ttsVars, audioVars>>

\* summarize lines 48-58: no chunk or no chunk summary, so the extract of the
\* cleaned text is returned
ExtractText ==
    /\ text_pc = "chunked"
    /\ extract' = fallback_summary(cleaned_text)
    /\ text_pc' = "done"
    /\ UNCHANGED <<raw_text, text_style, cleaned_text, text_chunks>>
    /\ UNCHANGED <<searchVars, sumVars, detailVars, bartVars, dbVars, handlerVars, genVars, ttsVars, audioVars>>

TextNext ==
    \/ CleanText
    \/ ChunkText
    \/ ExtractText

SpecText == TextInit /\ [][TextNext]_vars

(***************************************************************************)
(* HuggingFaceClient::summarize_bart: summarize_bart_with_retry(.., 2),    *)
(* one HTTP request at a time                                              *)
(***************************************************************************)
\* the answers one request may get: status 0 is send() returning Err; a 200
\* answer has a body that is no JSON list, an empty list, or a list whose
\* first summary_text has so many words
BartResponses ==
    {[status |-> 200, body |-> "summaries", words |-> w] : w \in {0, 3, 9, 10, 41}}
    \cup {[status |-> 200, body |-> b, words |-> 0] : b \in {"unparsable", "empty list"}}
    \cup {[status |-> st, body |-> "", words |-> 0] : st \in {0, 401, 403, 500}}

\* the AppError::ExternalApi a failed attempt leaves in last_error
BartError(o) ==
    CASE o.status = 0 -> <<"Failed to connect to HuggingFace Summarization API">>
      [] o.status # 0 /\ o.status # 200 -> <<"HuggingFace Summarization error", o.status>>
      [] o.status = 200 /\ o.body = "unparsable" -> <<"Failed to parse BART response">>
      [] o.status = 200 /\ o.body = "empty list" -> <<"No summary in BART response">>
      [] OTHER -> <<"BART returned insufficient summary content">>

\* a loop that keeps the error of its first failed attempt
LastError_KeepFirst(prev, o) == IF IsSome(prev) THEN prev ELSE Some(BartError(o))

\* `last_error = Some(error)` of a failed attempt
LastError(prev, o) == Some(BartError(o))

BartOk(text) == [tag |-> "Ok", text |-> text, error |-> <<>>]

BartErr(error) == [tag |-> "Err", text |-> <<>>, error |-> error]

\* the calls summarize makes: the ShortPath, a chunk and the final call
BartCalls ==
    {BartCall("short", 0, PlainInput(<<TextLine(<<6>>, 0)>>), 800, 200),
     BartCall("chunk", 1, PlainInput(<<TextLine(<<>>, 1500)>>), 200, 50),
     BartCall("final", 0, PlainInput(<<TextLine(<<41>>, 0)>>), 1200, 300)}

BartInit ==
    /\ bart_call \in BartCalls
    /\ bart_pc = "await"
    /\ bart_sent = <<>>
    /\ last_error = None
    /\ bart_ret = [tag |-> "none", text |-> <<>>, error |-> <<>>]
    /\ SearchIdle
    /\ SumIdle
    /\ DetailsIdle
    /\ TextIdle
    /\ DbIdle
    /\ HandlerIdle
    /\ GenIdle
    /\ TtsIdle
    /\ AudioIdle

\* one request of the loop is answered (client.rs 344-407)
BartRequestAnswered ==
    /\ bart_pc = "await"
    /\ \E o \in BartResponses :
          /\ bart_sent' = Append(bart_sent, o)
          /\ IF Succeeds(bart_call, o)
             THEN /\ bart_ret' = BartOk(ResponseText(o))
                  /\ bart_pc' = "done"
                  /\ UNCHANGED last_error
             ELSE /\ last_error' = LastError(last_error, o)
                  /\ IF Aborts(o) \/ ~Retries(bart_call, o)
                     THEN bart_ret' = BartErr(last_error'[1]) /\ bart_pc' = "done"
                     ELSE bart_pc' = "sleep" /\ UNCHANGED bart_ret
    /\ UNCHANGED bart_call
    /\ UNCHANGED <<searchVars, sumVars, detailVars, textVars, dbVars, handlerVars, genVars, ttsVars, audioVars>>

\* the sleep between two attempts is over (client.rs 409-417)
BartRetry ==
    /\ bart_pc = "sleep"
    /\ bart_call' = [bart_call EXCEPT !.attempt = @ + 1]
    /\ bart_pc' = "await"
    /\ UNCHANGED <<bart_sent, last_error, bart_ret>>
    /\ UNCHANGED <<searchVars, sumVars, detailVars, textVars, dbVars, handlerVars, genVars, ttsVars, audioVars>>

BartNext ==
    \/ BartRequestAnswered
    \/ BartRetry

SpecBart == BartInit /\ [][BartNext]_vars

(***************************************************************************)
(* initialize_database (main.rs): the connection loop                      *)
(***************************************************************************)
\* `let max_retries = 5`
DB_MAX_RETRIES == 5

\* the errors DatabaseService::new may give; the pool's connect gives up
\* after connect_timeout(30 s)
ConnectErrors == {"connection refused", "pool timed out", "password authentication failed"}

\* a loop that gives up one failure late
GiveUp_OneLate(count) == count > DB_MAX_RETRIES

\* `if retry_count >= max_retries`
GiveUp(count) == count >= DB_MAX_RETRIES

DbInit ==
    /\ retry_count = 0
    /\ db_pc = "connect"
    /\ db_results = <<>>
    /\ db_ret = [tag |-> "none", error |-> ""]
    /\ SearchIdle
    /\ SumIdle
    /\ DetailsIdle
    /\ TextIdle
    /\ BartIdle
    /\ HandlerIdle
    /\ GenIdle
    /\ TtsIdle
    /\ AudioIdle

\* DatabaseService::new returns (main.rs 137-178)
DbConnectReturns ==
    /\ db_pc = "connect"
    /\ \E r \in {"Ok"} \cup ConnectErrors :
          /\ db_results' = Append(db_results, r)
          /\ IF r = "Ok"
             THEN /\ db_ret' = [tag |-> "Ok", error |-> ""]
                  /\ db_pc' = "done"
                  /\ UNCHANGED retry_count
             ELSE /\ retry_count' = retry_count + 1
                  /\ IF GiveUp(retry_count')
                     THEN db_ret' = [tag |-> "Err", error |-> r] /\ db_pc' = "done"
                     ELSE db_pc' = "sleep" /\ UNCHANGED db_ret
    /\ UNCHANGED <<searchVars, sumVars, detailVars, textVars, bartVars, handlerVars, genVars, ttsVars, audioVars>>

\* sleep((retry_count + 1) * 3 s) is over and the loop starts again (179-186)
DbBackoffOver ==
    /\ db_pc = "sleep"
    /\ db_pc' = "connect"
    /\ UNCHANGED <<retry_count, db_results, db_ret>>
    /\ UNCHANGED <<searchVars, sumVars, detailVars, textVars, bartVars, handlerVars, genVars, ttsVars, audioVars>>

DbNext ==
    \/ DbConnectReturns
    \/ DbBackoffOver

\* every connect attempt returns within its timeouts and every sleep ends
SpecDb == DbInit /\ [][DbNext]_vars /\ WF_vars(DbConnectReturns) /\ WF_vars(DbBackoffOver)

(***************************************************************************)
(* BookAggregatorService serving either call: a search or a                *)
(* get_book_details                                                        *)
(***************************************************************************)
BooksInit == SearchInit \/ DetailsInit

BooksNext == SearchNext \/ DetailsNext

SpecBooks == BooksInit /\ [][BooksNext]_vars

(***************************************************************************)
(* search_books (api/handlers/search.rs): validation, cache read, query    *)
(* understanding, then the aggregator's search                             *)
(***************************************************************************)
\* payload.query of the requests: a valid query and one that is too short
PayloadQueries == {sDune, <<" ", "f">>}

\* payload.limit of the requests
PayloadLimits == {10, 101}

\* how long the three source calls take, in seconds: all fast, or all slower than
\* the handler's search timeout
HandlerLatencies == {[x \in SourceSet |-> 1], [x \in SourceSet |-> 40]}

\* validators::validate_query
validate_query(q) == Len(Trim(q)) >= 2 /\ Len(Trim(q)) <= 500

\* ExtractedTerms the NLP model's answer parses to: ExtractedTerms::default()
\* when the answer holds no usable JSON, or extracted terms
DefaultTerms ==
    [title |-> None, author |-> None, genre |-> None, theme |-> None, keywords |-> <<>>]

NlpTerms ==
    {DefaultTerms,
     [title |-> Some(sEmma), author |-> Some(sJA), genre |-> None, theme |-> None,
      keywords |-> <<sEmma, sFH>>]}

RECURSIVE PushKeywords(_, _)
\* `for keyword in &terms.keywords { if !parts.iter().any(|p| p.contains(keyword)) { parts.push(..) } }`
PushKeywords(parts, keywords) ==
    IF keywords = <<>> THEN parts
    ELSE PushKeywords(
             IF \E i \in DOMAIN parts : Contains(parts[i], Head(keywords))
             THEN parts ELSE Append(parts, Head(keywords)),
             Tail(keywords))

\* NLPService::build_search_query
build_search_query(terms, fallback) ==
    LET parts == PushKeywords(
                     terms.title
                     \o (IF terms.author = None THEN <<>>
                         ELSE <<<<"a", "u", "t", "h", "o", "r", ":">> \o terms.author[1]>>)
                     \o terms.genre \o terms.theme,
                     terms.keywords)
    IN  IF parts = <<>> THEN fallback ELSE JoinStr(parts, <<" ">>)

\* QueryIntent::new, without the extracted terms
QueryIntentNew(original_query, search_query) ==
    [original_query |-> original_query, search_query |-> search_query]

\* a fallback intent that searches for nothing
QueryIntentSimple_Empty(q) == QueryIntentNew(q, <<>>)

\* QueryIntent::simple
QueryIntentSimple(q) == QueryIntentNew(q, q)

\* what timeout(5 s, nlp_service.understand_query(&payload.query)) can give:
\* the timeout elapses, text_generation fails, or parse_nlp_response's Ok
NlpResults(q) ==
    {[tag |-> "Timeout"], [tag |-> "Err"]}
    \cup {[tag |-> "Ok", intent |-> QueryIntentNew(q, build_search_query(t, q))] : t \in NlpTerms}

\* lines 68-80 of search_books: the two unwrap_or_else calls
QueryIntentOf(result, q) ==
    IF result.tag = "Ok" THEN result.intent ELSE QueryIntentSimple(q)

HandlerInit ==
    /\ payload_query \in PayloadQueries
    /\ limit \in PayloadLimits
    /\ latency \in HandlerLatencies
    /\ sb_pc = "start"
    /\ cache_result = "none"
    /\ nlp_result = [tag |-> "none"]
    /\ query_intent = NoIntent
    /\ cache_set = FALSE
    /\ query = <<>>
    /\ arm = [x \in SourceSet |-> "none"]
    /\ returned = [x \in SourceSet |-> <<>>]
    /\ search_clock = 0
    /\ all_books = <<>>
    /\ deduplicated = <<>>
    /\ search_ret = "none"
    /\ final_results = <<>>
    /\ handler_ret = "none"
    /\ SumIdle
    /\ DetailsIdle
    /\ TextIdle
    /\ BartIdle
    /\ DbIdle
    /\ GenIdle
    /\ TtsIdle
    /\ AudioIdle

\* Lines 23-54 of search_books: the two validations, then the cache read under
\* its 100 ms timeout.  Only Ok(Some(cached)), "hit", returns; everything else,
\* "miss", goes on to the NLP call: the timeout elapsed, no entry, or an entry
\* that does not deserialize.  The results of a cached response are those of an
\* earlier request and are not tracked.
SearchBooksStart ==
    /\ sb_pc = "start"
    /\ IF ~validate_query(payload_query) \/ limit > 100
       THEN /\ handler_ret' = "InvalidInput"
            /\ sb_pc' = "done"
            /\ UNCHANGED cache_result
       ELSE \E c \in {"miss", "hit"} :
               /\ cache_result' = c
               /\ handler_ret' = IF c = "hit" THEN "Ok" ELSE "none"
               /\ sb_pc' = IF c = "hit" THEN "done" ELSE "nlp"
    /\ UNCHANGED <<payload_query, nlp_result, query_intent, cache_set>>
    /\ UNCHANGED <<query, limit, latency, arm, returned, search_clock, all_books,
                   deduplicated, search_ret, final_results>>
    /\ UNCHANGED <<sumVars, detailVars, textVars, bartVars, dbVars, genVars, ttsVars, audioVars>>

\* Lines 68-106: the NLP call returns or its 5 s timeout elapses, query_intent is
\* built, and aggregator.search(&query_intent.search_query, payload.limit) is
\* called: its three source calls are started.
UnderstandQueryReturns ==
    /\ sb_pc = "nlp"
    /\ \E r \in NlpResults(payload_query) :
          /\ nlp_result' = r
          /\ query_intent' = QueryIntentOf(r, payload_query)
    /\ query' = query_intent'.search_query
    /\ arm' = [x \in SourceSet |-> "pending"]
    /\ sb_pc' = "search"
    /\ UNCHANGED <<payload_query, cache_result, cache_set>>
    /\ UNCHANGED <<limit, latency, returned, search_clock, all_books, deduplicated,
                   search_ret, final_results, handler_ret>>
    /\ UNCHANGED <<sumVars, detailVars, textVars, bartVars, dbVars, genVars, ttsVars, audioVars>>

\* Lines 140-145: the task spawned once the response is built stores it.
SearchCacheSet ==
    /\ sb_pc = "search"
    /\ handler_ret = "Ok"
    /\ cache_set' = TRUE
    /\ sb_pc' = "done"
    /\ UNCHANGED <<payload_query, cache_result, nlp_result, query_intent>>
    /\ UNCHANGED <<searchVars, sumVars, detailVars, textVars, bartVars, dbVars, genVars, ttsVars, audioVars>>

HandlerNext ==
    \/ SearchBooksStart
    \/ UnderstandQueryReturns
    \/ \E src \in SourceSet : SourceSearchReturns(src)
    \/ SearchCollect
    \/ SearchTimeoutFires
    \/ SearchCacheSet

SpecHandler == HandlerInit /\ [][HandlerNext]_vars

(***************************************************************************)
(* generate_summary (api/handlers/summary.rs).  A text is known by where   *)
(* it comes from, its length in bytes and whether trim() leaves nothing.   *)
(***************************************************************************)
Str(from, len, blank) == [from |-> from, len |-> len, blank |-> blank]

\* the requests: a valid one, one with an unsupported style, one whose book id
\* is too short
SummaryRequests ==
    {[book_id |-> <<"gutenberg", ":", "2">>, language |-> "en", style |-> "concise"],
     [book_id |-> <<"gutenberg", ":", "2">>, language |-> "en", style |-> "poetic"],
     [book_id |-> <<"f">>, language |-> "en", style |-> "concise"]}

\* lines 29-35 of generate_summary
ValidRequest(req) ==
    /\ validate_query(req.book_id)
    /\ req.language \in SUPPORTED_LANGUAGES
    /\ req.style \in SUPPORTED_STYLES

\* The BookDetail values get_book_details gives: a Gutenberg book always has a
\* content_url, a Google Books book never, an Open Library book when it has an
\* Internet Archive identifier.  title and authors are the byte lengths of
\* book.title and book.author_names().
SummaryBook(source, description, published, has_url) ==
    [source |-> source, title |-> 4, authors |-> 2, description |-> description,
     published |-> published, content_url |-> has_url]

SummaryBooks ==
    {SummaryBook("Gutenberg", None, None, TRUE),
     SummaryBook("Gutenberg", Some(Str("description", 300, FALSE)), Some(4), TRUE),
     SummaryBook("Gutenberg", Some(Str("description", 3, TRUE)), None, TRUE),
     SummaryBook("Google", Some(Str("description", 60000, FALSE)), Some(4), FALSE),
     SummaryBook("OpenLibrary", None, None, TRUE)}

\* Book::has_content
has_content(book) == book.source = "Gutenberg"

\* what timeout(100 ms, cache.get_json(..)) gives: Ok(Some(cached)), Ok(None)
\* (no entry, or one that does not deserialize), or Err(Elapsed)
CacheReadOutcomes == {"Some", "None", "Elapsed"}

\* a read that never counts as a hit
CacheHit_Never(c) == FALSE

\* `if let Ok(Some(cached)) = cache_result`
CacheHit(c) == c = "Some"

\* what timeout(30 s, get_book_details(..)) gives
LookupOutcomes ==
    {[tag |-> "Elapsed", detail |-> None], [tag |-> "Err", detail |-> None],
     [tag |-> "Ok", detail |-> None]}
    \cup {[tag |-> "Ok", detail |-> Some(b)] : b \in SummaryBooks}

\* lines 92-99: the error the lookup's outcome maps to, "none" for a book
LookupError(o) ==
    CASE o.tag = "Elapsed" -> "ServiceTimeout"
      [] o.tag = "Err" -> "ServiceError"
      [] o.detail = None -> "BookNotFound"
      [] OTHER -> "none"

\* what the two awaits of extract_book_content give: send() elapses or fails,
\* text() elapses or fails, or a body arrives
FetchOutcomes ==
    {[tag |-> t, body |-> <<>>] : t \in {"SendElapsed", "SendErr", "TextElapsed", "TextErr"}}
    \cup {[tag |-> "Body", body |-> Str("content", l, FALSE)] : l \in {1000, 1001, 50001}}
    \cup {[tag |-> "Body", body |-> Str("content", l, TRUE)] : l \in {0, 1001}}

\* book.description.clone().unwrap_or_default()
DescriptionOrDefault(book) ==
    IF book.description = None THEN Str("description", 0, TRUE) ELSE book.description[1]

\* extract_book_content once the book has content and a content_url: the
\* Result<String> for one outcome of the fetch
extract_book_content(book, fetch) ==
    IF fetch.tag # "Body" THEN [tag |-> "Err", text |-> <<>>]
    ELSE IF fetch.body.len > 1000 THEN [tag |-> "Ok", text |-> fetch.body]
    ELSE [tag |-> "Ok", text |-> DescriptionOrDefault(book)]

\* create_fallback_content: "Title: {}\nAuthor(s): {}", then "\nDescription: {}"
\* and "\nPublished: {}" for the fields that are present
create_fallback_content(book) ==
    Str("fallback",
        7 + book.title + 12 + book.authors
          + (IF book.description = None THEN 0 ELSE 14 + book.description[1].len)
          + (IF book.published = None THEN 0 ELSE 12 + book.published[1]),
        FALSE)

\* create_minimal_fallback
create_minimal_fallback(book) == Str("minimal", 23 + book.title + 5 + book.authors + 150, FALSE)

\* lines 118-124: `match extract_book_content(..).await`
ContentOf(extracted, book) ==
    IF extracted.tag = "Ok" THEN extracted.text ELSE create_fallback_content(book)

\* blank content handed on as it is
TextToSummarize_NoMinimal(text, book) == text

\* lines 126-134: text_to_summarize
TextToSummarize(text, book) ==
    IF text.blank THEN create_minimal_fallback(book) ELSE text

\* lines 137-147: truncated_text; the cut text ends in "..."
Truncate(text) ==
    IF text.len > MAX_CHARS THEN Str(text.from, MAX_CHARS + 3, FALSE) ELSE text

\* summarizer.summarize under its 120 s timeout: Err(Elapsed), Err, Ok of a
\* blank text, Ok of a summary
SummarizeOutcomes == {"Elapsed", "Err", "OkBlank", "Ok"}

\* lines 150-165: the error the outcome maps to
SummarizeError(o) ==
    CASE o = "Elapsed" -> "ServiceTimeout"
      [] o = "Ok" -> "none"
      [] OTHER -> "ServiceError"

\* db.create_summary under its 10 s timeout
SaveOutcomes == {"Elapsed", "Err", "Ok"}

\* lines 204-213
SaveError(o) ==
    CASE o = "Elapsed" -> "ServiceTimeout"
      [] o = "Err" -> "DatabaseError"
      [] OTHER -> "none"

Logged(name, outcome) == [call |-> name, outcome |-> outcome]

GenInit ==
    /\ gs_req \in SummaryRequests
    /\ gs_pc = "start"
    /\ gs_log = <<>>
    /\ gs_book = <<>>
    /\ gs_text = <<>>
    /\ gs_ret = "none"
    /\ gs_spawned = "none"
    /\ SearchIdle
    /\ SumIdle
    /\ DetailsIdle
    /\ TextIdle
    /\ BartIdle
    /\ DbIdle
    /\ HandlerIdle
    /\ TtsIdle
    /\ AudioIdle

\* Lines 29-68: the three validations, then the cache read under its 100 ms
\* timeout; a hit returns the cached response.
GenSummaryStart ==
    /\ gs_pc = "start"
    /\ IF ~ValidRequest(gs_req)
       THEN /\ gs_ret' = "InvalidInput"
            /\ gs_pc' = "done"
            /\ UNCHANGED gs_log
       ELSE \E c \in CacheReadOutcomes :
               /\ gs_log' = Append(gs_log, Logged("cache.get_json", c))
               /\ gs_ret' = IF CacheHit(c) THEN "Ok" ELSE "none"
               /\ gs_pc' = IF CacheHit(c) THEN "done" ELSE "lookup"
    /\ UNCHANGED <<gs_req, gs_book, gs_text, gs_spawned>>
    /\ UNCHANGED <<searchVars, sumVars, detailVars, textVars, bartVars, dbVars, handlerVars, ttsVars, audioVars>>

\* Lines 92-99: get_book_details returns or its 30 s timeout elapses.
BookLookupReturns ==
    /\ gs_pc = "lookup"
    /\ \E o \in LookupOutcomes :
          /\ gs_log' = Append(gs_log, Logged("get_book_details", o.tag))
          /\ gs_ret' = LookupError(o)
          /\ gs_book' = IF LookupError(o) = "none" THEN o.detail[1] ELSE gs_book
          /\ gs_pc' = IF LookupError(o) = "none" THEN "content" ELSE "done"
    /\ UNCHANGED <<gs_req, gs_text, gs_spawned>>
    /\ UNCHANGED <<searchVars, sumVars, detailVars, textVars, bartVars, dbVars, handlerVars, ttsVars, audioVars>>

\* Lines 118-152: extract_book_content (the fetch of content_url for a book that
\* has content), the fallbacks, the truncation, and the call of
\* summarizer.summarize with the result.
ContentExtracted ==
    /\ gs_pc = "content"
    /\ IF has_content(gs_book) /\ gs_book.content_url
       THEN \E f \in FetchOutcomes :
               /\ gs_log' = Append(gs_log, Logged("http.get", f))
               /\ gs_text' = Truncate(TextToSummarize(
                                 ContentOf(extract_book_content(gs_book, f), gs_book), gs_book))
       ELSE /\ gs_text' = Truncate(TextToSummarize(DescriptionOrDefault(gs_book), gs_book))
            /\ UNCHANGED gs_log
    /\ gs_pc' = "summarize"
    /\ UNCHANGED <<gs_req, gs_book, gs_ret, gs_spawned>>
    /\ UNCHANGED <<searchVars, sumVars, detailVars, textVars, bartVars, dbVars, handlerVars, ttsVars, audioVars>>

\* Lines 150-206: summarize returns or its 120 s timeout elapses; an Ok of a
\* non-blank summary goes on to db.create_summary.
SummarizeReturns ==
    /\ gs_pc = "summarize"
    /\ \E o \in SummarizeOutcomes :
          /\ gs_log' = Append(gs_log, Logged("summarize", o))
          /\ gs_ret' = SummarizeError(o)
          /\ gs_pc' = IF SummarizeError(o) = "none" THEN "save" ELSE "done"
    /\ UNCHANGED <<gs_req, gs_book, gs_text, gs_spawned>>
    /\ UNCHANGED <<searchVars, sumVars, detailVars, textVars, bartVars, dbVars, handlerVars, ttsVars, audioVars>>

\* Lines 204-235: create_summary returns or its 10 s timeout elapses; on Ok the
\* cache task is spawned and the response is returned.
CreateSummaryReturns ==
    /\ gs_pc = "save"
    /\ \E o \in SaveOutcomes :
          /\ gs_log' = Append(gs_log, Logged("create_summary", o))
          /\ gs_ret' = IF SaveError(o) = "none" THEN "Ok" ELSE SaveError(o)
          /\ gs_spawned' = IF SaveError(o) = "none" THEN "spawned" ELSE gs_spawned
    /\ gs_pc' = "done"
    /\ UNCHANGED <<gs_req, gs_book, gs_text>>
    /\ UNCHANGED <<searchVars, sumVars, detailVars, textVars, bartVars, dbVars, handlerVars, ttsVars, audioVars>>

\* Lines 221-226: the spawned task stores the response.
SummaryCacheSet ==
    /\ gs_spawned = "spawned"
    /\ gs_log' = Append(gs_log, Logged("cache.set_json", "done"))
    /\ gs_spawned' = "ran"
    /\ UNCHANGED <<gs_req, gs_pc, gs_book, gs_text, gs_ret>>
    /\ UNCHANGED <<searchVars, sumVars, detailVars, textVars, bartVars, dbVars, handlerVars, ttsVars, audioVars>>

GenNext ==
    \/ GenSummaryStart
    \/ BookLookupReturns
    \/ ContentExtracted
    \/ SummarizeReturns
    \/ CreateSummaryReturns
    \/ SummaryCacheSet

SpecGen == GenInit /\ [][GenNext]_vars

(***************************************************************************)
(* TTSService::generate_audio.  A text is a sequence of runs, each a       *)
(* character and the number of times it is repeated, with no two adjacent  *)
(* runs of the same character.                                             *)
(***************************************************************************)
Run(c, n) == [ch |-> c, n |-> n]

\* char::len_utf8 on the characters of the texts
Utf8Len(c) == IF c = "é" THEN 2 ELSE 1

RECURSIVE ByteLen(_)
\* str::len
ByteLen(t) == IF t = <<>> THEN 0 ELSE Head(t).n * Utf8Len(Head(t).ch) + ByteLen(Tail(t))

RECURSIVE MergeRuns(_)
\* the same string with adjacent runs of one character merged and empty runs dropped
MergeRuns(t) ==
    IF t = <<>> THEN <<>>
    ELSE IF Head(t).n = 0 THEN MergeRuns(Tail(t))
    ELSE IF Len(t) >= 2 /\ t[2].ch = Head(t).ch
         THEN MergeRuns(<<Run(Head(t).ch, Head(t).n + t[2].n)>> \o SubSeq(t, 3, Len(t)))
         ELSE <<Head(t)>> \o MergeRuns(Tail(t))

RECURSIVE IsCharBoundary(_, _)
\* str::is_char_boundary, which the slice t[..k] panics without
IsCharBoundary(t, k) ==
    IF k = 0 THEN TRUE
    ELSE IF t = <<>> THEN FALSE
    ELSE IF k >= Head(t).n * Utf8Len(Head(t).ch)
         THEN IsCharBoundary(Tail(t), k - Head(t).n * Utf8Len(Head(t).ch))
         ELSE k % Utf8Len(Head(t).ch) = 0

RECURSIVE SliceTo(_, _)
\* &t[..k] for a k that is a char boundary
SliceTo(t, k) ==
    IF k = 0 \/ t = <<>> THEN <<>>
    ELSE IF k >= Head(t).n * Utf8Len(Head(t).ch)
         THEN <<Head(t)>> \o SliceTo(Tail(t), k - Head(t).n * Utf8Len(Head(t).ch))
         ELSE <<Run(Head(t).ch, k \div Utf8Len(Head(t).ch))>>

RECURSIVE TakeChars(_, _)
\* chars().take(n).collect()
TakeChars(t, n) ==
    IF n = 0 \/ t = <<>> THEN <<>>
    ELSE IF n >= Head(t).n THEN <<Head(t)>> \o TakeChars(Tail(t), n - Head(t).n)
    ELSE <<Run(Head(t).ch, n)>>

RECURSIVE SplitWords(_, _)
\* split_whitespace: the words of t, cur being the word under construction
SplitWords(t, cur) ==
    IF t = <<>> THEN (IF cur = <<>> THEN <<>> ELSE <<cur>>)
    ELSE IF Head(t).ch = " "
         THEN (IF cur = <<>> THEN <<>> ELSE <<cur>>) \o SplitWords(Tail(t), <<>>)
         ELSE SplitWords(Tail(t), Append(cur, Head(t)))

RECURSIVE JoinWords(_)
\* join(" ")
JoinWords(ws) ==
    IF ws = <<>> THEN <<>>
    ELSE IF Len(ws) = 1 THEN ws[1]
    ELSE ws[1] \o <<Run(" ", 1)>> \o JoinWords(Tail(ws))

\* text::truncate_text
truncate_text(t, max_words) ==
    IF Len(SplitWords(t, <<>>)) <= max_words THEN t
    ELSE MergeRuns(JoinWords(Take(SplitWords(t, <<>>), max_words)) \o <<Run(".", 3)>>)

RECURSIVE LastSentenceEnd(_, _)
\* cleaned.rfind(&['.', '!', '?'][..]): the byte index, -1 for None; offset is
\* the byte index t starts at
LastSentenceEnd(t, offset) ==
    IF t = <<>> THEN -1
    ELSE IF LastSentenceEnd(Tail(t), offset + Head(t).n * Utf8Len(Head(t).ch)) >= 0
         THEN LastSentenceEnd(Tail(t), offset + Head(t).n * Utf8Len(Head(t).ch))
         ELSE IF Head(t).ch = "." THEN offset + Head(t).n - 1 ELSE -1

\* characters the replace(.., "") calls of lines 163-168 remove
MarkdownChars == {"*", "_", "#"}

\* characters the filter of lines 190-192 keeps: alphanumeric ones and
\* punctuation
TtsKeptChars == {"a", "é", " ", ".", ",", "!", "?", ";", ":", "-"}

\* lines 161-200 of clean_text_for_tts on texts written in "a", "é", " ", "." and
\* "*": none of the replaced symbols or abbreviations and no word with "http"
\* or "@" occurs in them
CleanedChars(t) ==
    TakeChars(
        JoinWords(SplitWords(
            MergeRuns(SelectSeq(
                JoinWords(SplitWords(
                    MergeRuns(SelectSeq(t, LAMBDA r : r.ch \notin MarkdownChars)), <<>>)),
                LAMBDA r : r.ch \in TtsKeptChars)), <<>>)),
        1000)

\* clean_text_for_tts
clean_text_for_tts(t) ==
    IF ByteLen(CleanedChars(t)) >= 1000 /\ LastSentenceEnd(CleanedChars(t), 0) > 500
    THEN SliceTo(CleanedChars(t), LastSentenceEnd(CleanedChars(t), 0) + 1)
    ELSE CleanedChars(t)

TTS_MODEL == "microsoft/speecht5_tts"

BACKUP_TTS_MODEL == "facebook/mms-tts-eng"

\* get_tts_model
get_tts_model(lang) ==
    CASE lang = "de" -> "facebook/mms-tts-deu"
      [] lang = "ta" -> "facebook/mms-tts-tam"
      [] OTHER -> TTS_MODEL

\* the texts: a short one, one that is cut at its last sentence end, one with a
\* two-byte character across byte 200, one with a two-byte character across
\* byte 50, and one that cleans to nothing
TtsTexts ==
    {<<Run("a", 5), Run(" ", 2), Run("*", 2), Run("a", 4)>>,
     <<Run("a", 600), Run(".", 1), Run(" ", 1), Run("a", 500)>>,
     <<Run("a", 199), Run("é", 1), Run("a", 10)>>,
     <<Run("a", 49), Run("é", 1), Run("a", 5)>>,
     <<Run("*", 3)>>}

\* what one HTTP request to the endpoint gives: 200 with more than 100 bytes,
\* 200 with at most 100 bytes, an error status, or no response
TtsAnswers == {"Audio", "Small", "401", "404", "503", "NoResponse"}

\* the model a strategy sends its requests to
StrategyModel(strategy, lang) ==
    CASE strategy = "primary" -> get_tts_model(lang)
      [] strategy = "backup" -> BACKUP_TTS_MODEL
      [] OTHER -> TTS_MODEL

\* the models a call can send requests to
ModelsOf(lang) == {StrategyModel(st, lang) : st \in {"primary", "main", "backup"}}

\* The endpoint's answers during one call: one per model, and whether the main
\* model gives audio for the shortened text whatever it answers for the full one.
Endpoints(lang) ==
    [answers : [ModelsOf(lang) -> TtsAnswers], short_ok : BOOLEAN]

\* the answer to one request
AnswerOf(ep, strategy, lang) ==
    IF strategy = "short" /\ ep.short_ok THEN "Audio"
    ELSE ep.answers[StrategyModel(strategy, lang)]

\* the max_retries generate_audio passes to generate_with_retry
StrategyRetries(strategy) == IF strategy = "short" THEN 1 ELSE 2

\* HuggingFaceClient::tts calls tts_with_retry(model, text, 3)
TTS_HTTP_RETRIES == 3

\* lines 122-130 of tts_with_retry: return Err(last_error) at once
TtsAborts(answer) == answer \in {"401", "403", "404"}

\* tts_with_retry after the answer to attempt number `attempt`: "Ok", "Err", or
\* "again" for the next pass of its loop
HttpStep(answer, attempt) ==
    IF answer = "Audio" THEN "Ok"
    ELSE IF TtsAborts(answer) \/ attempt >= TTS_HTTP_RETRIES THEN "Err"
    ELSE "again"

\* lines 53-99 of generate_audio: what follows a strategy whose
\* generate_with_retry gave Err
NextStrategy(strategy, lang) ==
    CASE strategy = "primary" /\ get_tts_model(lang) # TTS_MODEL -> "main"
      [] strategy \in {"primary", "main"} /\ get_tts_model(lang) # BACKUP_TTS_MODEL
                                          /\ TTS_MODEL # BACKUP_TTS_MODEL -> "backup"
      [] strategy = "short" -> "fallback"
      [] OTHER -> "shorten"

\* lines 227-239 and 302 of generate_fallback_audio: the length of the WAV, 44
\* header bytes and two bytes per sample of a duration of words * 0.4 + 2 seconds
\* kept between 3 and 45
FallbackWavLen(t) ==
    44 + 2 * Min(Max(Len(SplitWords(t, <<>>)) * 8820 + 44100, 66150), 992250)

AudioOk(from, len) == [tag |-> "Ok", from |-> from, len |-> len]

AudioErr(error) == [tag |-> "Err", from |-> error, len |-> 0]

\* the task panicked at a str slice whose end is inside a character
AudioPanic(at) == [tag |-> "Panic", from |-> at, len |-> 0]

TtsInit ==
    /\ tts_text \in TtsTexts
    /\ tts_language \in {"en", "de"}
    /\ endpoint \in Endpoints(tts_language)
    /\ tts_cleaned = <<>>
    /\ short_text = <<>>
    /\ tts_pc = "start"
    /\ tts_attempt = 0
    /\ http_attempt = 0
    /\ tts_requests = <<>>
    /\ tts_ret = NoAudio
    /\ SearchIdle
    /\ SumIdle
    /\ DetailsIdle
    /\ TextIdle
    /\ BartIdle
    /\ DbIdle
    /\ HandlerIdle
    /\ GenIdle
    /\ AudioIdle

\* Lines 19-39: the text is truncated and cleaned; a blank result returns
\* InvalidInput, anything else starts the primary model's first request.
TtsStart ==
    /\ tts_pc = "start"
    /\ tts_cleaned' = clean_text_for_tts(truncate_text(tts_text, 500))
    /\ IF SplitWords(tts_cleaned', <<>>) = <<>>
       THEN /\ tts_ret' = AudioErr("InvalidInput")
            /\ tts_pc' = "done"
            /\ UNCHANGED <<tts_attempt, http_attempt>>
       ELSE /\ tts_pc' = "primary"
            /\ tts_attempt' = 1
            /\ http_attempt' = 1
            /\ UNCHANGED tts_ret
    /\ UNCHANGED <<tts_text, tts_language, endpoint, short_text, tts_requests>>
    /\ UNCHANGED <<searchVars, sumVars, detailVars, textVars, bartVars, dbVars, handlerVars, genVars, audioVars>>

\* One HTTP request of tts_with_retry is answered, and the code runs up to its
\* next request or to the end of the strategy: more than 100 bytes return Ok
\* through generate_with_retry and generate_audio; 401, 403, 404 or the third
\* failed request end tts_with_retry with Err, after which generate_with_retry
\* sleeps and calls tts again, or, its attempts used up, gives Err and
\* generate_audio goes to its next strategy.
TtsRequestAnswered ==
    /\ tts_pc \in {"primary", "main", "backup", "short"}
    /\ tts_requests' = Append(tts_requests,
                              [model |-> StrategyModel(tts_pc, tts_language),
                               short |-> tts_pc = "short",
                               answer |-> AnswerOf(endpoint, tts_pc, tts_language)])
    /\ CASE HttpStep(AnswerOf(endpoint, tts_pc, tts_language), http_attempt) = "Ok" ->
               /\ tts_ret' = AudioOk(tts_pc, 101)
               /\ tts_pc' = "done"
               /\ UNCHANGED <<tts_attempt, http_attempt>>
         [] HttpStep(AnswerOf(endpoint, tts_pc, tts_language), http_attempt) = "again" ->
               /\ http_attempt' = http_attempt + 1
               /\ UNCHANGED <<tts_pc, tts_attempt, tts_ret>>
         [] OTHER ->
               /\ http_attempt' = 1
               /\ IF tts_attempt < StrategyRetries(tts_pc)
                  THEN /\ tts_attempt' = tts_attempt + 1
                       /\ UNCHANGED tts_pc
                  ELSE /\ tts_attempt' = 1
                       /\ tts_pc' = NextStrategy(tts_pc, tts_language)
               /\ UNCHANGED tts_ret
    /\ UNCHANGED <<tts_text, tts_language, endpoint, tts_cleaned, short_text>>
    /\ UNCHANGED <<searchVars, sumVars, detailVars, textVars, bartVars, dbVars, handlerVars, genVars, audioVars>>

\* Lines 83-90: short_text is the cleaned form of the first 200 bytes of
\* cleaned_text; the slice panics when byte 200 is inside a character.  A short
\* text that is not empty and differs from cleaned_text is sent to the main
\* model once.
TtsShorten ==
    /\ tts_pc = "shorten"
    /\ IF ~IsCharBoundary(tts_cleaned, Min(ByteLen(tts_cleaned), 200))
       THEN /\ tts_ret' = AudioPanic("cleaned_text[..200]")
            /\ tts_pc' = "done"
            /\ UNCHANGED short_text
       ELSE /\ short_text' = clean_text_for_tts(
                                 SliceTo(tts_cleaned, Min(ByteLen(tts_cleaned), 200)))
            /\ tts_pc' = IF short_text' # <<>> /\ short_text' # tts_cleaned
                         THEN "short" ELSE "fallback"
            /\ UNCHANGED tts_ret
    /\ UNCHANGED <<tts_text, tts_language, endpoint, tts_cleaned, tts_attempt, http_attempt,
                   tts_requests>>
    /\ UNCHANGED <<searchVars, sumVars, detailVars, textVars, bartVars, dbVars, handlerVars, genVars, audioVars>>

\* Lines 103-115: generate_fallback_audio builds the WAV and logs the first 50
\* bytes of a longer text at info level, which the default filter of main.rs
\* enables; that slice panics when byte 50 is inside a character.
TtsFallbackAudio ==
    /\ tts_pc = "fallback"
    /\ tts_ret' = IF ByteLen(tts_cleaned) > 50 /\ ~IsCharBoundary(tts_cleaned, 50)
                  THEN AudioPanic("text[..50]")
                  ELSE AudioOk("fallback", FallbackWavLen(tts_cleaned))
    /\ tts_pc' = "done"
    /\ UNCHANGED <<tts_text, tts_language, endpoint, tts_cleaned, short_text, tts_attempt,
                   http_attempt, tts_requests>>
    /\ UNCHANGED <<searchVars, sumVars, detailVars, textVars, bartVars, dbVars, handlerVars, genVars, audioVars>>

TtsNext ==
    \/ TtsStart
    \/ TtsRequestAnswered
    \/ TtsShorten
    \/ TtsFallbackAudio

SpecTts == TtsInit /\ [][TtsNext]_vars

(***************************************************************************)
(* get_audio (api/handlers/audio.rs): concurrent requests for one summary  *)
(* id and language.  A row of audio_files is known by the request that     *)
(* inserted it, 0 for a row that was there before.                         *)
(***************************************************************************)
AudioRow(r) == [by |-> r]

AudioReturn(tag, row) == [tag |-> tag, row |-> row]

\* get_audio_by_summary: `ORDER BY created_at DESC LIMIT 1`
get_audio_by_summary(rows) == IF rows = <<>> THEN None ELSE Some(rows[Len(rows)])

\* generate_audio as get_audio sees it: Ok(data), Err, or a panic of the task
GenerateAudioOutcomes == {"Ok", "Err", "Panic"}

AudioInit ==
    /\ summary_row \in {"Some", "Blank", "None"}
    /\ audio_files \in {<<>>, <<AudioRow(0)>>}
    /\ au_pc = [r \in AudioRequests |-> "start"]
    /\ au_ret = [r \in AudioRequests |-> AudioReturn("none", 0)]
    /\ tts_calls = <<>>
    /\ SearchIdle
    /\ SumIdle
    /\ DetailsIdle
    /\ TextIdle
    /\ BartIdle
    /\ DbIdle
    /\ HandlerIdle
    /\ GenIdle
    /\ TtsIdle

\* Lines 39-111 for request r: get_summary_by_id, then get_audio_by_summary, each
\* of which can fail; an existing row is returned; otherwise, for a summary
\* with text, generate_audio is called.  The two reads see the table as it is
\* at this step; nothing is held between this step and the insert.
AudioLookup(r) ==
    /\ au_pc[r] = "start"
    /\ \E db_ok \in BOOLEAN :
          CASE ~db_ok ->
                  /\ au_ret' = [au_ret EXCEPT ![r] = AudioReturn("DatabaseError", 0)]
                  /\ au_pc' = [au_pc EXCEPT ![r] = "done"]
                  /\ UNCHANGED tts_calls
            [] db_ok /\ summary_row = "None" ->
                  /\ au_ret' = [au_ret EXCEPT ![r] = AudioReturn("SummaryNotFound", 0)]
                  /\ au_pc' = [au_pc EXCEPT ![r] = "done"]
                  /\ UNCHANGED tts_calls
            [] db_ok /\ summary_row # "None" /\ get_audio_by_summary(audio_files) # None ->
                  /\ au_ret' = [au_ret EXCEPT ![r] =
                                   AudioReturn("Ok", get_audio_by_summary(audio_files)[1].by)]
                  /\ au_pc' = [au_pc EXCEPT ![r] = "done"]
                  /\ UNCHANGED tts_calls
            [] db_ok /\ summary_row = "Blank" /\ get_audio_by_summary(audio_files) = None ->
                  /\ au_ret' = [au_ret EXCEPT ![r] = AudioReturn("InvalidInput", 0)]
                  /\ au_pc' = [au_pc EXCEPT ![r] = "done"]
                  /\ UNCHANGED tts_calls
            [] OTHER ->
                  /\ tts_calls' = Append(tts_calls, r)
                  /\ au_pc' = [au_pc EXCEPT ![r] = "tts"]
                  /\ UNCHANGED au_ret
    /\ UNCHANGED <<summary_row, audio_files>>
    /\ UNCHANGED <<searchVars, sumVars, detailVars, textVars, bartVars, dbVars, handlerVars, genVars, ttsVars>>

\* Lines 110-205 for request r: generate_audio returns; Ok goes on to
\* create_audio_file, Err is returned as ServiceError.
AudioGenerated(r) ==
    /\ au_pc[r] = "tts"
    /\ \E o \in GenerateAudioOutcomes :
          /\ au_pc' = [au_pc EXCEPT ![r] = IF o = "Ok" THEN "insert" ELSE "done"]
          /\ au_ret' = [au_ret EXCEPT ![r] =
                           CASE o = "Ok" -> au_ret[r]
                             [] o = "Err" -> AudioReturn("ServiceError", 0)
                             [] OTHER -> AudioReturn("Panic", 0)]
    /\ UNCHANGED <<summary_row, audio_files, tts_calls>>
    /\ UNCHANGED <<searchVars, sumVars, detailVars, textVars, bartVars, dbVars, handlerVars, genVars, ttsVars>>

\* Lines 207-244 for request r: create_audio_file's plain INSERT adds a row with
\* a fresh id, or fails.
AudioSaved(r) ==
    /\ au_pc[r] = "insert"
    /\ \E ok \in BOOLEAN :
          /\ audio_files' = IF ok THEN Append(audio_files, AudioRow(r)) ELSE audio_files
          /\ au_ret' = [au_ret EXCEPT ![r] =
                           IF ok THEN AudioReturn("Ok", r) ELSE AudioReturn("ServiceError", 0)]
    /\ au_pc' = [au_pc EXCEPT ![r] = "done"]
    /\ UNCHANGED <<summary_row, tts_calls>>
    /\ UNCHANGED <<searchVars, sumVars, detailVars, textVars, bartVars, dbVars, handlerVars, genVars, ttsVars>>

AudioNext ==
    \E r \in AudioRequests :
        \/ AudioLookup(r)
        \/ AudioGenerated(r)
        \/ AudioSaved(r)

SpecAudio == AudioInit /\ [][AudioNext]_vars


(***************************************************************************)
(* Properties of the aggregator's search                                   *)
(***************************************************************************)
\* C2: whenever at least one source search succeeded and search has returned, it
\* returned Ok, all_books holds exactly the books of the succeeded sources, in
\* source order, and nothing of a failed source.
Thm_C2_PartialFailureMerged ==
    (search_ret # "none" /\ \E x \in SourceSet : arm[x] = "ok") =>
        /\ search_ret = "Ok"
        /\ all_books =
              (IF arm["google"] = "ok" THEN returned["google"] ELSE <<>>)
              \o (IF arm["openlibrary"] = "ok" THEN returned["openlibrary"] ELSE <<>>)
              \o (IF arm["gutenberg"] = "ok" THEN returned["gutenberg"] ELSE <<>>)
        /\ \A x \in SourceSet : arm[x] = "err" =>
              \A i \in DOMAIN all_books : all_books[i].id[1] # x

\* C2 witness: a search that returned with one source failed and the books of
\* another merged
Wit_C2 ==
    /\ search_ret = "Ok"
    /\ arm["google"] = "err"
    /\ arm["gutenberg"] = "ok"
    /\ Len(returned["gutenberg"]) = 2
    /\ Len(all_books) >= 2

\* C3: the deduplicated list holds exactly one book per dedup key of the input,
\* taken from the input, from the best source of its group (Gutenberg over
\* OpenLibrary over Google) and no less complete than any book of that source
\* in the group; "Dune"/Google and "dune"/Gutenberg collapse to the Gutenberg book.
Thm_C3_OnePerKeyBestSource ==
    search_ret = "Ok" =>
        LET prio == [t \in BookSourceTags |->
                        IF t = "Gutenberg" THEN 1 ELSE IF t = "OpenLibrary" THEN 2 ELSE 3]
        IN  /\ \A k \in DedupKeys(all_books) :
                  Cardinality({i \in DOMAIN deduplicated :
                                  create_dedup_key(deduplicated[i]) = k}) = 1
            /\ \A i \in DOMAIN deduplicated :
                  /\ \E j \in DOMAIN all_books : all_books[j] = deduplicated[i]
                  /\ \A j \in DOMAIN all_books :
                        create_dedup_key(all_books[j]) = create_dedup_key(deduplicated[i]) =>
                           \/ prio[deduplicated[i].source] < prio[all_books[j].source]
                           \/ /\ deduplicated[i].source = all_books[j].source
                              /\ calculate_completeness_score(deduplicated[i])
                                    >= calculate_completeness_score(all_books[j])
            /\ ((\E j \in DOMAIN all_books :
                    all_books[j].title = sDune /\ all_books[j].source = "Google"
                    /\ all_books[j].authors = <<sFH>>)
                /\ (\E j \in DOMAIN all_books :
                    all_books[j].title = sdune /\ all_books[j].source = "Gutenberg"
                    /\ all_books[j].authors = <<sFH>>))
               => Cardinality({i \in DOMAIN deduplicated :
                                  /\ ToLower(deduplicated[i].title) = sdune
                                  /\ deduplicated[i].source = "Gutenberg"}) = 1
                  /\ \A i \in DOMAIN deduplicated :
                        ToLower(deduplicated[i].title) = sdune =>
                           deduplicated[i].source = "Gutenberg"

\* C3 witness: a group with a Google book and two OpenLibrary books of different
\* completeness and no Gutenberg book, deduplicated
Wit_C3 ==
    /\ search_ret = "Ok"
    /\ \E i, j, k \in DOMAIN all_books :
          /\ all_books[i].source = "Google"
          /\ all_books[j].source = "OpenLibrary"
          /\ all_books[k].source = "OpenLibrary"
          /\ create_dedup_key(all_books[i]) = create_dedup_key(all_books[j])
          /\ create_dedup_key(all_books[j]) = create_dedup_key(all_books[k])
          /\ calculate_completeness_score(all_books[j])
                > calculate_completeness_score(all_books[k])
          /\ j > k
          /\ \E d \in DOMAIN deduplicated : deduplicated[d] = all_books[j]
    /\ \A i \in DOMAIN all_books : all_books[i].source # "Gutenberg"

\* C4 (as claimed): whatever order the merged books are in, dedup-and-rank can
\* only produce the list it produced for the order they were merged in.
CX_C4_OrderIndependent ==
    search_ret = "Ok" =>
        \A p \in Orderings(DOMAIN all_books) :
            \A ord \in Orderings(DedupKeys(all_books)) :
                deduplicate_and_prioritize([i \in DOMAIN all_books |-> all_books[p[i]]],
                                           query, ord) = deduplicated

\* C5 (as claimed): when a source call runs into its timeout, the search request
\* still ends Ok and no sibling call is cancelled.
CX_C5_SourceTimeoutIsolated ==
    (handler_ret # "none" /\ \E x \in SourceSet : latency[x] >= HTTP_CLIENT_TIMEOUT) =>
        /\ handler_ret = "Ok"
        /\ \A y \in SourceSet : arm[y] # "dropped"

\* C7 (as claimed): when all three source searches failed, search returns an error.
CX_C7_AllFailedIsError ==
    (search_ret # "none" /\ \A x \in SourceSet : arm[x] = "err") => search_ret = "Err"

\* C16: deduplicating the deduplicated list again, in whatever order the
\* groups are visited, gives the same set of books and as many of them, and the
\* deduplicated list is never longer than the merged one.
Thm_C16_DedupIdempotentNonExpanding ==
    search_ret = "Ok" =>
        /\ Len(deduplicated) <= Len(all_books)
        /\ \A ord \in Orderings(DedupKeys(deduplicated)) :
              LET again == deduplicate_and_prioritize(deduplicated, query, ord)
              IN  Range(again) = Range(deduplicated) /\ Len(again) = Len(deduplicated)

\* C16 witness: five merged books of two keys were cut down to two
Wit_C16 ==
    /\ search_ret = "Ok"
    /\ Len(all_books) = 5
    /\ Len(deduplicated) = 2
    /\ Cardinality(DedupKeys(all_books)) = 2

\* C17: in the ranked list, and in the list search returns, no book comes
\* before a book of strictly higher relevance to the query.
Thm_C17_RankedByRelevance ==
    search_ret = "Ok" =>
        /\ \A i, j \in DOMAIN deduplicated :
              i < j => calculate_relevance_score(deduplicated[i], query)
                          >= calculate_relevance_score(deduplicated[j], query)
        /\ \A i, j \in DOMAIN final_results :
              i < j => calculate_relevance_score(final_results[i], query)
                          >= calculate_relevance_score(final_results[j], query)

\* C17 witness: search returned three books of three different relevance scores
Wit_C17 ==
    /\ search_ret = "Ok"
    /\ Len(final_results) = 3
    /\ calculate_relevance_score(final_results[1], query)
          > calculate_relevance_score(final_results[2], query)
    /\ calculate_relevance_score(final_results[2], query)
          > calculate_relevance_score(final_results[3], query)

\* where a book first occurs in the merged sequence
FirstIndex(book) == CHOOSE i \in DOMAIN all_books : all_books[i] = book /\ \A j \in 1..(i - 1) : all_books[j] # book

\* where a book's dedup key first occurs in the merged sequence
FirstKeyIndex(book) ==
    CHOOSE i \in DOMAIN all_books :
        /\ create_dedup_key(all_books[i]) = create_dedup_key(book)
        /\ \A j \in 1..(i - 1) : create_dedup_key(all_books[j]) # create_dedup_key(book)

\* C18 (as claimed): two ranked books of equal relevance stand in the order in
\* which they, or at least their groups, came in the merged sequence.
CX_C18_TiesInInputOrder ==
    search_ret = "Ok" =>
        \A i, j \in DOMAIN deduplicated :
            (i < j /\ calculate_relevance_score(deduplicated[i], query)
                         = calculate_relevance_score(deduplicated[j], query)) =>
                \/ FirstIndex(deduplicated[i]) < FirstIndex(deduplicated[j])
                \/ FirstKeyIndex(deduplicated[i]) < FirstKeyIndex(deduplicated[j])

\* C19: search returns min(limit, length) books, the head of the ranked
\* deduplicated list element by element.
Thm_C19_FirstLimitOfRanked ==
    search_ret = "Ok" =>
        /\ Len(final_results) <= limit
        /\ Len(final_results) = Min(limit, Len(deduplicated))
        /\ \A i \in DOMAIN final_results : final_results[i] = deduplicated[i]

\* C19 witness: with limit 1 a ranked list of three books was cut to its first
Wit_C19 ==
    /\ search_ret = "Ok"
    /\ limit = 1
    /\ Len(deduplicated) = 3
    /\ final_results = <<deduplicated[1]>>

\* 1 when the condition holds and 0 otherwise
Indicator(cond) == IF cond THEN 1 ELSE 0

\* the matches of a book with a query as C33 counts them, in whole points: 10,
\* 5 and 3 for the title, 8 and 4 for every author, 2 for the description
MatchPoints(book, q) ==
    10 * Indicator(Contains(ToLower(book.title), ToLower(q)))
    + 5 * Indicator(ToLower(book.title) = ToLower(q))
    + 3 * Indicator(StartsWith(ToLower(book.title), ToLower(q)))
    + SumSeq([i \in DOMAIN book.authors |->
                 8 * Indicator(Contains(ToLower(book.authors[i]), ToLower(q)))
                 + 4 * Indicator(ToLower(book.authors[i]) = ToLower(q))])
    + 2 * Indicator(IsSome(book.description) /\ Contains(ToLower(book.description[1]), ToLower(q)))

\* the bonus of a source, in whole points
SourcePoints(source) ==
    CASE source = "Gutenberg" -> 3
      [] source = "OpenLibrary" -> 2
      [] source = "Google" -> 1

\* C33: the relevance of every book search returns is the f32 nearest to the
\* sum of its match points, the bonus of its source, which is higher for
\* Gutenberg than for Open Library and higher for Open Library than for
\* Google, and bonuses below one point for a cover (0.5), a description (0.5)
\* and an ISBN (0.3).
Thm_C33_RelevanceFormula ==
    /\ SourcePoints("Gutenberg") > SourcePoints("OpenLibrary")
    /\ SourcePoints("OpenLibrary") > SourcePoints("Google")
    /\ search_ret = "Ok" =>
          \A i \in DOMAIN final_results :
              calculate_relevance_score(final_results[i], query) =
                  F32Round(33554432 * (MatchPoints(final_results[i], query)
                                       + SourcePoints(final_results[i].source))
                           + 16777216 * Indicator(IsSome(final_results[i].cover_url))
                           + 16777216 * Indicator(IsSome(final_results[i].description))
                           + 10066330 * Indicator(IsSome(final_results[i].isbn)))

\* C33 witness: search for "Dune" returned a book titled "Dune" by an author
\* whose name is not the query, with the query in its description
Wit_C33 ==
    /\ search_ret = "Ok"
    /\ query = sDune
    /\ \E i \in DOMAIN final_results :
          /\ final_results[i].title = sDune
          /\ MatchPoints(final_results[i], query) = 20
          /\ IsSome(final_results[i].isbn)

(***************************************************************************)
(* Properties of summarize, checked under SpecSum                          *)
(***************************************************************************)
\* summary_result of chunk k in summarize_chunks' loop
SummaryResult(k) ==
    (CHOOSE r \in Range(site_results) : r.site = "chunk" /\ r.index = k).result

\* C1 (as claimed): for non-empty content, when every client call made for the
\* request has failed, summarize has returned Ok with a non-empty string.
CX_C1_FallbackWhenBackendFails ==
    (sm_pc = "done" /\ content # <<>> /\ ~backend_ok)
        => (sum_ret.tag = "Ok" /\ sum_ret.text # <<>>)

\* C6 (as claimed): a summary request on the ChunkedPath never ends while a
\* chunk within the cap is still to be summarized, and it ends with a summary.
CX_C6_SlowChunkSkipped ==
    (caller = "handler" /\ chunks # <<>> /\ gen_ret # "none"
     /\ chunk_i < Min(4, Len(chunks)))
        => FALSE

\* C8 (as claimed): the ShortPath call and the final ChunkedPath call carry the
\* requested style's final bound: concise 800/200, detailed 1500/400, academic
\* 1300/350, simple 1000/250.
CX_C8_StyleFinalBound ==
    \A j \in DOMAIN calls :
        (calls[j].site \in {"short", "final"} /\ calls[j].fn = "summarize_bart") =>
            <<calls[j].max_length, calls[j].min_length>> =
                CASE style = "concise" -> <<800, 200>>
                  [] style = "detailed" -> <<1500, 400>>
                  [] style = "academic" -> <<1300, 350>>
                  [] style = "simple" -> <<1000, 250>>

\* C9: once the cleaned text has more than 2000 words, no ShortPath call is
\* made; the text is cut into chunks that hold all its words, each of at most
\* 1500 words unless it is a single sentence; and every chunk-level call is for
\* one of the first 4 chunks and carries that chunk's text.
Thm_C9_ChunkedPathCap ==
    (sm_pc # "call" /\ WordCount(cleaned_content) > 2000) =>
        /\ chunks # <<>>
        /\ SumSeq([k \in DOMAIN chunks |-> WordCount(chunks[k])]) = WordCount(cleaned_content)
        /\ \A k \in DOMAIN chunks :
              \/ WordCount(chunks[k]) <= 1500
              \/ \E sentence \in Range(split_into_sentences(cleaned_content)) :
                    sentence.w = WordCount(chunks[k])
        /\ chunk_i <= 4
        /\ \A j \in DOMAIN calls :
              /\ calls[j].site # "short"
              /\ calls[j].site = "chunk" =>
                    /\ calls[j].index \in 1..4
                    /\ calls[j].index <= Len(chunks)
                    /\ calls[j].input.text = chunks[calls[j].index]

\* C9 witness: a text cut into more than 4 chunks whose summarize has returned
\* after 4 chunk-level rounds
Wit_C9 ==
    /\ sm_pc = "done"
    /\ Len(chunks) > 4
    /\ chunk_i = 4
    /\ \E j \in DOMAIN calls : calls[j].site = "chunk" /\ calls[j].index = 4

\* C10: the summaries kept are exactly those of the chunks whose call
\* succeeded, in chunk order, and the loop is left only after every chunk within
\* the cap has had its call, failed chunks or not.
Thm_C10_FailedChunkSkipped ==
    (sm_pc # "call" /\ chunks # <<>>) =>
        /\ \A k \in 1..chunk_i :
              /\ \E j \in DOMAIN calls : calls[j].site = "chunk" /\ calls[j].index = k
              /\ Cardinality({n \in DOMAIN site_results :
                                 site_results[n].site = "chunk" /\ site_results[n].index = k}) = 1
        /\ LET kept == SelectSeq([k \in 1..chunk_i |-> SummaryResult(k)],
                                 LAMBDA r : r.tag = "Ok")
           IN  summaries = [n \in DOMAIN kept |-> clean_summary(kept[n].text)]
        /\ call.site # "chunk" => chunk_i = Min(4, Len(chunks))

\* C10 witness: the first chunk's call failed, a later chunk's call succeeded,
\* the loop is over and the later chunk's summary is kept
Wit_C10 ==
    /\ sm_pc = "done"
    /\ chunk_i >= 3
    /\ SummaryResult(1).tag = "Err"
    /\ SummaryResult(2).tag = "Ok"
    /\ SummaryResult(3).tag = "Err"
    /\ Len(summaries) = 1

\* C11: when summarize has returned on the ChunkedPath with no chunk summary,
\* its result is Ok of the extractive fallback over the cleaned text, and no
\* final call was ever made.
Thm_C11_NoChunkSummaryFallback ==
    (sm_pc = "done" /\ chunks # <<>> /\ summaries = <<>>) =>
        /\ sum_ret = Ok(fallback_summary(cleaned_content))
        /\ combined_summaries = <<>>
        /\ \A j \in DOMAIN calls : calls[j].site = "chunk"
        /\ \A n \in DOMAIN site_results :
              site_results[n].site = "chunk" /\ site_results[n].result.tag = "Err"

\* C11 witness: three chunks of a text that had a START line cut away all
\* failed, and summarize has returned
Wit_C11 ==
    /\ sm_pc = "done"
    /\ chunk_i = 3
    /\ summaries = <<>>
    /\ content # cleaned_content
    /\ fallback_summary(content) # fallback_summary(cleaned_content)
    /\ sum_ret.tag = "Ok"

\* C12: once the chunk loop is over with at least one summary, the joined
\* summaries are the input of the one final call expression (one client call
\* for "en"; text_generation and then its summarize_bart fallback at most
\* otherwise), and summarize returns that call's text or, when it failed, the
\* extractive fallback over the joined summaries.
Thm_C12_FinalCallAndFallback ==
    (sm_pc # "call" /\ chunks # <<>> /\ summaries # <<>> /\ call.site # "chunk") =>
        /\ combined_summaries = JoinParagraphs(summaries)
        /\ Cardinality({j \in DOMAIN calls : calls[j].site = "final"})
              \in (IF language = "en" THEN {1} ELSE {1, 2})
        /\ \A j \in DOMAIN calls :
              calls[j].site = "final" => calls[j].input.text = combined_summaries
        /\ Cardinality({n \in DOMAIN site_results : site_results[n].site = "final"})
              = (IF sm_pc = "done" THEN 1 ELSE 0)
        /\ \A n \in DOMAIN site_results :
              site_results[n].site = "final" =>
                 sum_ret = Ok(IF site_results[n].result.tag = "Ok"
                              THEN site_results[n].result.text
                              ELSE fallback_summary(combined_summaries))

\* C12 witness: two chunk summaries were joined, the final call failed, and
\* summarize has returned the fallback over them
Wit_C12 ==
    /\ sm_pc = "done"
    /\ Len(summaries) = 2
    /\ \E n \in DOMAIN site_results :
          site_results[n].site = "final" /\ site_results[n].result.tag = "Err"
    /\ sum_ret = Ok(fallback_summary(combined_summaries))
    /\ fallback_summary(combined_summaries) # fallback_summary(cleaned_content)

\* the chunk-level results that were Ok, in the order they came
OkChunkResults ==
    SelectSeq(site_results, LAMBDA r : r.site = "chunk" /\ r.result.tag = "Ok")

\* C13: chunk calls are made in chunk order, each only when every earlier
\* chunk's call has returned, the call in flight is the only one without a
\* result, and the combined text is the surviving summaries in increasing chunk
\* order, a blank line between them.
Thm_C13_SequentialOrderPreserving ==
    /\ \A a, b \in DOMAIN calls :
          (a < b /\ calls[a].site = "chunk" /\ calls[b].site = "chunk") =>
              calls[a].index <= calls[b].index
    /\ \A a, b \in DOMAIN site_results :
          (a < b /\ site_results[a].site = "chunk" /\ site_results[b].site = "chunk") =>
              site_results[a].index < site_results[b].index
    /\ \A j \in DOMAIN calls :
          calls[j].site = "chunk" =>
              \A k \in 1..(calls[j].index - 1) :
                  \E n \in DOMAIN site_results :
                      site_results[n].site = "chunk" /\ site_results[n].index = k
    /\ (sm_pc = "await" /\ call.site = "chunk") =>
          /\ call.index = chunk_i + 1
          /\ \A n \in DOMAIN site_results :
                site_results[n].site = "chunk" => site_results[n].index < call.index
    /\ combined_summaries # <<>> =>
          combined_summaries =
              JoinParagraphs([n \in DOMAIN OkChunkResults |->
                                 clean_summary(OkChunkResults[n].result.text)])

\* C13 witness: of four chunks the second failed, and the combined text holds
\* the summaries of the first, the third and the fourth, which differ
Wit_C13 ==
    /\ chunk_i = 4
    /\ Len(OkChunkResults) = 3
    /\ OkChunkResults[1].index = 1
    /\ OkChunkResults[2].index = 3
    /\ OkChunkResults[3].index = 4
    /\ Len(combined_summaries) = 5
    /\ combined_summaries[1] # combined_summaries[3]
    /\ combined_summaries[3] # combined_summaries[5]

\* C14: an Ok result of summarize for a non-empty text is never the empty
\* string and never blank, whichever return statement produced it.
Thm_C14_OkResultNonEmpty ==
    (sm_pc = "done" /\ sum_ret.tag = "Ok" /\ content # <<>>) =>
        /\ sum_ret.text # <<>>
        /\ WordCount(sum_ret.text) > 0
        /\ TextChars(sum_ret.text) > 0

\* C14 witness: a text that is one long chapter line; its chunk call failed
\* and the fallback, finding no sentence to keep, returned the canned sentence
Wit_C14 ==
    /\ sm_pc = "done"
    /\ content # <<>>
    /\ chunks # <<>>
    /\ summaries = <<>>
    /\ sum_ret = Ok(CannedSummary)

\* C15: for the empty text summarize returns at once, Ok of the message of
\* the language (German, Tamil, or else English), and no backend call is made.
Thm_C15_EmptyInputMessage ==
    (content = <<>> /\ sm_pc # "call") =>
        /\ sm_pc = "done"
        /\ calls = <<>>
        /\ site_results = <<>>
        /\ ~backend_ok
        /\ elapsed = 0
        /\ sum_ret.tag = "Ok"
        /\ Len(sum_ret.text) = 1
        /\ sum_ret.text[1].kind = (CASE language = "de" -> "no_content_de"
                                     [] language = "ta" -> "no_content_ta"
                                     [] OTHER -> "no_content_en")

\* C15 witness: the empty text in Tamil has got the Tamil message
Wit_C15 ==
    /\ content = <<>>
    /\ language = "ta"
    /\ sm_pc = "done"
    /\ sum_ret = Ok(get_fallback_message("ta"))
    /\ calls = <<>>

\* C24 (as claimed): every chunk-level summarize_bart call carries the
\* requested style's per-chunk bound: concise 150/40, detailed 300/80, academic
\* 250/70, simple 180/50.
CX_C24_StyleChunkBound ==
    \A j \in DOMAIN calls :
        (calls[j].site = "chunk" /\ calls[j].fn = "summarize_bart") =>
            <<calls[j].max_length, calls[j].min_length>> =
                CASE style = "concise" -> <<150, 40>>
                  [] style = "detailed" -> <<300, 80>>
                  [] style = "academic" -> <<250, 70>>
                  [] style = "simple" -> <<180, 50>>

\* the target length a request carries: max_length of a summarize_bart
\* request, the target_words of a text_generation prompt
RequestedTarget(sent) ==
    IF sent.fn = "summarize_bart" THEN sent.max_length ELSE sent.input.target_words

\* the target length the call site of a logged request asks for when the
\* style is sty and everything else is as it was
TargetUnder(sent, sty) ==
    RequestedTarget(Sent(SiteCall(sent.site, sent.index, sent.input.text, language, sty,
                                  RequestedTarget(sent), sent.min_length)))

\* C25: when the request made last is a chunk-level or a final one, the
\* target length it asks for is the one its call site asks for under the
\* request's own style, 200 for a chunk and 1200 for the final text, and from
\* concise to simple to academic to detailed the call site never asks for
\* less.  Every request is the last one in the state that follows its issue.
Thm_C25_TargetMonotoneInStyle ==
    (calls # <<>> /\ calls[Len(calls)].site \in {"chunk", "final"}) =>
        /\ TargetUnder(calls[Len(calls)], style) = RequestedTarget(calls[Len(calls)])
        /\ RequestedTarget(calls[Len(calls)]) =
              (IF calls[Len(calls)].site = "chunk" THEN 200 ELSE 1200)
        /\ TargetUnder(calls[Len(calls)], "concise") <= TargetUnder(calls[Len(calls)], "simple")
        /\ TargetUnder(calls[Len(calls)], "simple") <= TargetUnder(calls[Len(calls)], "academic")
        /\ TargetUnder(calls[Len(calls)], "academic") <= TargetUnder(calls[Len(calls)], "detailed")

\* C25 witness: a request of style concise has made a chunk-level and a final
\* request
Wit_C25 ==
    /\ style = "concise"
    /\ \E j \in DOMAIN calls : calls[j].site = "chunk" /\ RequestedTarget(calls[j]) = 200
    /\ \E j \in DOMAIN calls : calls[j].site = "final" /\ RequestedTarget(calls[j]) = 1200

\* C26 (as claimed): every text handed to the backend comes after the
\* instruction of the requested style.
CX_C26_StyleInstructionPrefixed ==
    \A j \in DOMAIN calls : calls[j].input.style_instruction = style

(***************************************************************************)
(* Properties of get_book_details, checked under SpecDetails               *)
(***************************************************************************)
\* an optional sign and then digits only, at least one
IsDecimal(part) ==
    \E k \in {0, 1} :
        /\ k = 1 => (Len(part) >= 1 /\ part[1] \in {"+", "-"})
        /\ Len(part) > k
        /\ \A i \in (k + 1)..Len(part) :
              part[i] \in {"0", "1", "2", "3", "4", "5", "6", "7", "8", "9"}

\* the id has not exactly one ':', or names no known source before it, or is a
\* Gutenberg id with something else than a number after it
MalformedId ==
    \/ Cardinality({i \in DOMAIN detail_id : detail_id[i] = ":"}) # 1
    \/ \E c \in DOMAIN detail_id :
          /\ detail_id[c] = ":"
          /\ \/ SubSeq(detail_id, 1, c - 1)
                   \notin {<<"google">>, <<"openlibrary">>, <<"gutenberg">>}
             \/ /\ SubSeq(detail_id, 1, c - 1) = <<"gutenberg">>
                /\ ~IsDecimal(SubSeq(detail_id, c + 1, Len(detail_id)))

\* C20: for a malformed id get_book_details returns InvalidInput in its first
\* step and no source adapter is ever called.
Thm_C20_MalformedIdRejected ==
    (MalformedId /\ dt_pc # "call") =>
        /\ dt_pc = "done"
        /\ details_ret.tag = "InvalidInput"
        /\ adapter_calls = <<>>
        /\ fetched = None

\* C20 witness: an id with two separators after a known source has been
\* rejected without a call
Wit_C20 ==
    /\ detail_id = <<"google", ":", "g1", ":", "1">>
    /\ dt_pc = "done"
    /\ details_ret = InvalidInput("Invalid book ID format")
    /\ adapter_calls = <<>>

\* C21: once the adapter named by the id has reported not-found,
\* get_book_details has returned Ok(None), that get_by_id is the only adapter
\* call there ever is, and every adapter call is to the adapter of the prefix.
Thm_C21_NotFoundIsNone ==
    /\ \A j \in DOMAIN adapter_calls : <<adapter_calls[j].adapter>> = SubSeq(detail_id, 1, 1)
    /\ (adapter_results # <<>> /\ adapter_results[1] = "Ok(None)") =>
          /\ dt_pc = "done"
          /\ details_ret.tag = "Ok"
          /\ details_ret.detail = None
          /\ Len(adapter_calls) = 1
          /\ adapter_calls[1].fn = "get_by_id"
          /\ Len(adapter_results) = 1

\* C21 witness: Open Library, which has an enrichment lookup, reported
\* not-found for a well-formed id
Wit_C21 ==
    /\ detail_id = <<"openlibrary", ":", "/works/OL1W">>
    /\ adapter_results = <<"Ok(None)">>
    /\ details_ret.tag = "Ok"
    /\ details_ret.detail = None

\* C22: once the adapter's get_by_id has failed, get_book_details has
\* returned that very error, with no BookDetail, and no second adapter call was
\* made.
Thm_C22_AdapterErrorPropagates ==
    (adapter_results # <<>> /\ adapter_results[1] \in {"Err(HttpRequest)", "Err(ExternalApi)"}) =>
        /\ dt_pc = "done"
        /\ details_ret.tag = (IF adapter_results[1] = "Err(HttpRequest)"
                              THEN "HttpRequest" ELSE "ExternalApi")
        /\ details_ret.detail = None
        /\ fetched = None
        /\ Len(adapter_calls) = 1
        /\ Len(adapter_results) = 1

\* C22 witness: the Gutenberg adapter answered 500 for id 7 and the error came back
Wit_C22 ==
    /\ detail_id = <<"gutenberg", ":", "0", "7">>
    /\ adapter_results = <<"Err(ExternalApi)">>
    /\ adapter_calls[1].gid = 7
    /\ details_ret.tag = "ExternalApi"

\* C23: in a BookDetail the content URL of a Gutenberg book is the files URL
\* built from the book's number, that of an Open Library book is there exactly
\* when get_ia_identifier gave Ok(Some(..)) and whatever that lookup gave the
\* call ends Ok, and that of a Google book is None.
Thm_C23_ContentUrlBySource ==
    /\ (dt_pc = "done" /\ Len(adapter_results) = 2) => details_ret.tag = "Ok"
    /\ (details_ret.tag = "Ok" /\ IsSome(details_ret.detail)) =>
          /\ details_ret.detail[1].book = fetched[1]
          /\ details_ret.detail[1].book.source = "Gutenberg" =>
                details_ret.detail[1].content_url =
                    Some(<<"https://www.gutenberg.org/files/",
                           details_ret.detail[1].book.id[3], "/",
                           details_ret.detail[1].book.id[3], "-0.txt">>)
          /\ details_ret.detail[1].book.source = "OpenLibrary" =>
                /\ Len(adapter_results) = 2
                /\ IsSome(details_ret.detail[1].content_url)
                      <=> adapter_results[2] = "Ok(Some)"
                /\ adapter_results[2] = "Ok(Some)" =>
                      details_ret.detail[1].content_url =
                          Some(<<"https://archive.org/download/", "ia1", "/", "ia1", ".txt">>)
          /\ details_ret.detail[1].book.source = "Google" =>
                details_ret.detail[1].content_url = None

\* C23 witness: the archive lookup for an Open Library book failed and the
\* detail came back without a content URL
Wit_C23 ==
    /\ dt_pc = "done"
    /\ adapter_results = <<"Ok(Some)", "Err(HttpRequest)">>
    /\ details_ret.tag = "Ok"
    /\ details_ret.detail[1].book.source = "OpenLibrary"
    /\ details_ret.detail[1].content_url = None

(***************************************************************************)
(* Properties of the text steps                                            *)
(***************************************************************************)
\* C27 (as claimed): the extract joins at most N sentences, N being 15 for
\* style concise, 20 for detailed, 18 for academic and 12 for simple.
CX_C27_StyleSentenceLimit ==
    (text_pc = "done" /\ extract # CannedSummary) =>
        Len(extract[1].sents) <= (CASE text_style = "concise" -> 15
                                    [] text_style = "detailed" -> 20
                                    [] text_style = "academic" -> 18
                                    [] text_style = "simple" -> 12)

\* the sentences of the paragraphs of a text
ParagraphSentences(text) ==
    UNION {Range(split_into_sentences(para)) : para \in Range(Paragraphs(text, <<>>))}

\* C28: every chunk cut from the cleaned text has a word, and has at most
\* CHUNK_TARGET_WORDS words unless it is one sentence of one paragraph that is
\* itself longer than that.
Thm_C28_ChunksBounded ==
    text_pc \in {"chunked", "done"} =>
        /\ text_chunks # <<>>
        /\ \A k \in DOMAIN text_chunks :
              /\ text_chunks[k] # <<>>
              /\ WordCount(text_chunks[k]) > 0
              /\ \/ WordCount(text_chunks[k]) <= CHUNK_TARGET_WORDS
                 \/ /\ Len(text_chunks[k]) = 1
                    /\ \E sent \in ParagraphSentences(cleaned_text) :
                          sent.w = WordCount(text_chunks[k])

\* C28 witness: a text of two paragraphs came through the cleaner as it was;
\* the first paragraph is a chunk, and the second, too long, was cut at its
\* sentences, of which the first two are too long themselves
Wit_C28 ==
    /\ text_pc = "chunked"
    /\ cleaned_text = <<EndRun, BlankLine, TextLine(<<1600, 1600, 300>>, 0)>>
    /\ Len(text_chunks) = 4
    /\ text_chunks[1] = <<EndRun>>
    /\ WordCount(text_chunks[2]) = 1600
    /\ WordCount(text_chunks[4]) = 300

\* C29 (as claimed): the chunks one after another hold the pieces of the
\* cleaned text, each with its words and its terminator, in the text's order.
CX_C29_ChunksReproduceText ==
    text_pc \in {"chunked", "done"} =>
        TextPieces(Concat(text_chunks)) = TextPieces(cleaned_text)

\* C30 (as claimed): a raw text without a START marker, a chapter heading and
\* an END marker comes out of the cleaner as it went in.
CX_C30_NoMarkerUnchanged ==
    (/\ text_pc # "call"
     /\ \A i \in DOMAIN raw_text : raw_text[i].kind \notin {"start", "chapter", "end"})
        => cleaned_text = raw_text

(***************************************************************************)
(* Properties of the books of BookAggregatorService                        *)
(***************************************************************************)
\* the BookSource an id prefix names
SourceOfPrefix(prefix) ==
    CASE prefix = "google" -> "Google"
      [] prefix = "openlibrary" -> "OpenLibrary"
      [] prefix = "gutenberg" -> "Gutenberg"
      [] OTHER -> "none"

\* the id is "<prefix>:<rest>" and the prefix names the book's source
IdMatchesSource(book) ==
    /\ Len(book.id) >= 3
    /\ book.id[2] = ":"
    /\ SourceOfPrefix(book.id[1]) = book.source

\* C34: every book an adapter returned, from a search or from get_by_id, has
\* an id whose prefix names its source; the deduplicated and ranked list and
\* the list search returns hold books of the merged list as they were, and
\* the BookDetail holds the fetched book as it was.
Thm_C34_IdPrefixMatchesSource ==
    /\ \A x \in SourceSet : \A i \in DOMAIN returned[x] : IdMatchesSource(returned[x][i])
    /\ \A i \in DOMAIN all_books : IdMatchesSource(all_books[i])
    /\ \A i \in DOMAIN deduplicated :
          IdMatchesSource(deduplicated[i]) /\ deduplicated[i] \in Range(all_books)
    /\ \A i \in DOMAIN final_results :
          IdMatchesSource(final_results[i]) /\ final_results[i] \in Range(all_books)
    /\ IsSome(fetched) => IdMatchesSource(fetched[1])
    /\ (details_ret.tag = "Ok" /\ IsSome(details_ret.detail)) =>
          /\ IdMatchesSource(details_ret.detail[1].book)
          /\ details_ret.detail[1].book.id = fetched[1].id
          /\ details_ret.detail[1].book.source = fetched[1].source

\* C34 witness: search returned books of the three sources
Wit_C34_Search ==
    /\ search_ret = "Ok"
    /\ {final_results[i].source : i \in DOMAIN final_results}
          = {"Google", "OpenLibrary", "Gutenberg"}

(***************************************************************************)
(* Properties of summarize_bart                                            *)
(***************************************************************************)
\* the answer carries a summary of at least 10 words
GoodSummary(o) == o.status = 200 /\ o.body = "summaries" /\ o.words >= 10

\* C35: a summarize_bart call sends at most 2 requests; an answer with a
\* summary of at least 10 words, and an answer of status 401 or 403, is the
\* last one and ends the call, with Ok(that summary) and with the error of
\* that answer; and once two requests have failed the call has ended with the
\* error of the second.
Thm_C35_BartAtMostTwoRequests ==
    /\ Len(bart_sent) <= 2
    /\ \A j \in DOMAIN bart_sent :
          /\ GoodSummary(bart_sent[j]) =>
                /\ j = Len(bart_sent)
                /\ bart_pc = "done"
                /\ bart_ret = BartOk(<<TextLine(<<bart_sent[j].words>>, 0)>>)
          /\ bart_sent[j].status \in {401, 403} =>
                /\ j = Len(bart_sent)
                /\ bart_pc = "done"
                /\ bart_ret = BartErr(<<"HuggingFace Summarization error", bart_sent[j].status>>)
    /\ (Len(bart_sent) = 2 /\ ~GoodSummary(bart_sent[2])) =>
          /\ bart_pc = "done"
          /\ bart_ret = BartErr(BartError(bart_sent[2]))
    /\ bart_pc = "done" =>
          \/ GoodSummary(bart_sent[Len(bart_sent)])
          \/ bart_sent[Len(bart_sent)].status \in {401, 403}
          \/ Len(bart_sent) = 2

\* C35 witness: a first request answered 500 and a second answered with a
\* summary of 9 words; the call ended with the second error
Wit_C35 ==
    /\ bart_pc = "done"
    /\ Len(bart_sent) = 2
    /\ bart_sent[1].status = 500
    /\ bart_sent[2].words = 9
    /\ bart_ret = BartErr(<<"BART returned insufficient summary content">>)

(***************************************************************************)
(* Properties of initialize_database                                       *)
(***************************************************************************)
\* at most 5 attempts; an attempt that succeeded is the last one and its
\* connection is returned; an error is returned exactly when 5 attempts failed
DbAttemptsBounded ==
    /\ Len(db_results) <= 5
    /\ \A j \in DOMAIN db_results :
          db_results[j] = "Ok" => (j = Len(db_results) /\ db_pc = "done" /\ db_ret.tag = "Ok")
    /\ db_ret.tag = "Ok" => db_results[Len(db_results)] = "Ok"
    /\ db_ret.tag = "Err" <=>
          (Len(db_results) = 5 /\ \A j \in DOMAIN db_results : db_results[j] # "Ok")
    /\ db_pc = "done" <=> db_ret.tag # "none"

\* C39: initialize_database makes at most 5 connection attempts, returns the
\* connection of the first that succeeds and tries no more, returns an error
\* exactly when 5 attempts have failed, and always returns.
Thm_C39_DatabaseInitTerminates == []DbAttemptsBounded /\ <>(db_pc = "done")

\* C39 witness: four attempts failed and the fifth gave the connection
Wit_C39 ==
    /\ db_pc = "done"
    /\ Len(db_results) = 5
    /\ db_results[4] # "Ok"
    /\ db_ret.tag = "Ok"

(***************************************************************************)
(* Properties of search_books                                              *)
(***************************************************************************)
\* C40: once the NLP step has failed or timed out, search_books has built
\* QueryIntent::simple of the caller's query and has called the aggregator's
\* search with the caller's original query string; the request never returns an
\* error for it: it is still searching, has returned Ok, or has returned the
\* search's own timeout with the pending source calls dropped.
Thm_C40_NlpFailureFallsBack ==
    nlp_result.tag \in {"Err", "Timeout"} =>
        /\ sb_pc \in {"search", "done"}
        /\ query_intent = [original_query |-> payload_query, search_query |-> payload_query]
        /\ query = payload_query
        /\ \A x \in SourceSet : arm[x] # "none"
        /\ handler_ret \in {"none", "Ok", "ServiceTimeout"}
        /\ handler_ret = "ServiceTimeout" => \E x \in SourceSet : arm[x] = "dropped"

\* the NLP step timed out and the request returned books found for the caller's
\* own query
Wit_C40 ==
    /\ nlp_result.tag = "Timeout"
    /\ payload_query = sDune
    /\ handler_ret = "Ok"
    /\ final_results # <<>>
    /\ cache_set


(***************************************************************************)
(* Properties of generate_summary                                          *)
(***************************************************************************)
\* the content fetch failed, timed out, or gave a body of at most 1000 bytes
FetchUnavailable(fetch) == fetch.tag # "Body" \/ fetch.body.len <= 1000

Calls(name) == Cardinality({i \in DOMAIN gs_log : gs_log[i].call = name})

\* the cache is read first and once, written at most once and only after
\* create_summary gave Ok, a hit ends the request, a slow read does not
CacheDiscipline ==
    /\ gs_log # <<>> /\ gs_log[1].call = "cache.get_json"
    /\ Calls("cache.get_json") = 1
    /\ Calls("cache.set_json") <= 1
    /\ \A i \in DOMAIN gs_log :
          gs_log[i].call = "cache.set_json" =>
             /\ gs_ret = "Ok"
             /\ i > 1 /\ gs_log[i - 1] = Logged("create_summary", "Ok")
    /\ gs_log[1].outcome = "Some" => gs_log = <<Logged("cache.get_json", "Some")>> /\ gs_ret = "Ok"
    /\ gs_log[1].outcome # "Some" /\ Len(gs_log) = 1 => gs_pc = "lookup" /\ gs_ret = "none"
    /\ (\E i \in DOMAIN gs_log : gs_log[i] = Logged("create_summary", "Ok")) => gs_ret = "Ok"

\* C32 as stated: every summary request, once past its first step, has read the
\* cache exactly once and before every other call
CX_C32_EveryRequestReadsCache == gs_pc \notin {"idle", "start"} => CacheDiscipline

\* C32, amended: a summary request that passes input validation reads the cache
\* exactly once, before any adapter, backend or persistence call, and writes it
\* at most once, only after create_summary succeeded; a hit returns with no
\* other call; a read that timed out lets the request go on, and the response
\* is returned whether or not the spawned write has run.  A request rejected by
\* validation never reads or writes the cache.
Thm_C32_CacheDiscipline ==
    /\ gs_pc \notin {"idle", "start"} /\ ValidRequest(gs_req) => CacheDiscipline
    /\ gs_pc \notin {"idle", "start"} /\ ~ValidRequest(gs_req) =>
          gs_log = <<>> /\ gs_ret = "InvalidInput" /\ gs_spawned = "none"

\* the cache read timed out, the summary was made and saved, and the response
\* was returned while the spawned cache write has not run yet
Wit_C32 ==
    /\ gs_log # <<>>
    /\ gs_log[1] = Logged("cache.get_json", "Elapsed")
    /\ gs_ret = "Ok"
    /\ gs_spawned = "spawned"


(***************************************************************************)
(* Properties of TTSService::generate_audio                                *)
(***************************************************************************)
\* C36: a generate_audio call that has ended for a text whose cleaned form is
\* not empty has returned Ok with audio bytes.
CX_C36_AlwaysOkAudio ==
    tts_pc = "done" /\ tts_cleaned # <<>> => tts_ret.tag = "Ok" /\ tts_ret.len > 0

\* C37: no request is sent to a model after the endpoint answered 401, 403 or
\* 404 to an earlier request of the same call to that model.
CX_C37_NoRequestAfterDenial ==
    \A i, j \in DOMAIN tts_requests :
        i < j /\ tts_requests[i].answer \in {"401", "403", "404"} =>
            tts_requests[j].model # tts_requests[i].model


(***************************************************************************)
(* Properties of concurrent get_audio requests                             *)
(***************************************************************************)
\* C38: among concurrent get_audio requests for one summary id and language,
\* at most one calls generate_audio and at most one row is inserted, and a
\* request that returned an existing row made no generate_audio call.
CX_C38_GeneratedAtMostOnce ==
    /\ Len(tts_calls) <= 1
    /\ Cardinality({i \in DOMAIN audio_files : audio_files[i].by \in AudioRequests}) <= 1
    /\ \A r \in AudioRequests :
          au_ret[r].tag = "Ok" /\ au_ret[r].row # r =>
             \A i \in DOMAIN tts_calls : tts_calls[i] # r


====
